---- MODULE Spec2Model ----
(***************************************************************************)
(* A model of tap-onsen's core (src-tauri/src):                            *)
(*   - the audio-capture state machine of commands/audio.rs                *)
(*     (start_recording, stop_recording, the capture worker thread and     *)
(*     the hardware callbacks), checked under Spec;                        *)
(*     the same with its threads scheduled fairly, under SpecFair, and     *)
(*     one session buffer between its callback and its drain, statement    *)
(*     by statement, under SpecBuffer;                                     *)
(*   - the SSE stream decoders of ai/streaming.rs and the streaming        *)
(*     provider calls of ai/client.rs, checked under SpecStream;           *)
(*   - the same decoders sending into the bounded event channel, with its  *)
(*     consumer, checked under SpecChan;                                   *)
(*   - create_provider and the process and process_stream methods of the   *)
(*     three clients of ai/client.rs, checked under SpecProvider;          *)
(*   - the WAV encoders of voice/format.rs, checked under SpecEncoder;     *)
(*   - transcribe_chunked of voice/pipeline.rs, under SpecPipeline;        *)
(*   - the command process_with_ai of commands/ai.rs, under SpecCommand;   *)
(*   - the input history of ai/context.rs, under SpecContext;              *)
(*   - the entry table of db/repository.rs, under SpecTable.               *)
(***************************************************************************)
EXTENDS Integers, Sequences, FiniteSets, TLC

(***************************************************************************)
(* Bounds of the model.                                                    *)
(***************************************************************************)
\* capture workers spawned in one run
MaxSessions == 2
\* samples the hardware delivers in one run, over all capture workers
MaxSamples == 2

(***************************************************************************)
(* ------------------------  AUDIO CAPTURE  ------------------------------ *)
(***************************************************************************)
VARIABLES
    is_recording,   \* AudioInner.is_recording
    buffer,         \* AudioInner.buffer: which Arc<Mutex<Vec<f32>>> it points to
    stop_tx,        \* AudioInner.stop_tx: 0 = None, w = Some(sender of worker w)
    sample_rate,    \* AudioInner.sample_rate
    channels,       \* AudioInner.channels
    ctl,            \* holder of the AudioState mutex: "none" | "start" | "stop"
    workers,        \* the capture worker threads and their two channels
    bufs,           \* the contents of every sample buffer ever allocated
    call,           \* the command invoked last
    ret,            \* what the command that returned last returned
    pending         \* history: the samples each worker's callbacks appended
                    \* that no stop_recording has returned yet

audioVars == <<is_recording, buffer, stop_tx, sample_rate, channels, ctl,
               workers, bufs, call, ret, pending>>

Workers == 1..MaxSessions
\* buffer 0 is the one AudioState::new allocates; buffer w the one the start
\* that spawned worker w allocates
BufIds == 0..MaxSessions

\* A sample is an f32 in fixed point: the integer s stands for s / Unit.  Every
\* i16 divided by 32768.0 is such a value, and for such a value the f32 product
\* with 32767.0 rounds to the same side of every integer as the exact product,
\* so the cast of Quantize is exact.  NaN is the f32 NaN.
NaN == 9999999
Unit == 32768
I16Divisor == 32768
I16Max == 32767

\* What default_input_config can answer: rate, channels and sample format.
Configs ==
    { [rate |-> 16000, ch |-> 1, fmt |-> "I16"],
      [rate |-> 48000, ch |-> 2, fmt |-> "F32"],
      [rate |-> 44100, ch |-> 2, fmt |-> "U16"] }

\* The hardware frames a callback may deliver, per sample format.
\* i16 frames hold raw i16 values; f32 frames hold floats (2.0, -0.5, NaN).
Frames(fmt) ==
    CASE fmt = "I16" -> { <<-32768>>, <<32767, -1>> }
      [] fmt = "F32" -> { <<65536, -16384>>, <<NaN>> }
      [] OTHER -> {}

\* data.iter().map(|&s| s as f32 / 32768.0) for an i16 frame (the division is
\* exact in f32); an f32 frame is appended as it is
Normalize(fmt, frame) ==
    IF fmt = "I16"
    THEN [i \in DOMAIN frame |-> (frame[i] * Unit) \div I16Divisor]
    ELSE frame

----------------------------------------------------------------------------
\* s.clamp(-1.0, 1.0); NaN.clamp is NaN
Clamp(s) ==
    IF s = NaN THEN NaN
    ELSE IF s < -Unit THEN -Unit
    ELSE IF s > Unit THEN Unit
    ELSE s

\* integer division rounding toward zero, as the `as i16` cast truncates
TruncDiv(a, b) == IF a >= 0 THEN a \div b ELSE -((-a) \div b)

\* (s.clamp(-1.0, 1.0) * 32767.0) as i16; NaN casts to 0
Quantize(s) ==
    IF Clamp(s) = NaN THEN 0
    ELSE TruncDiv(Clamp(s) * I16Max, Unit)

\* to_be_bytes in place of to_le_bytes
ToLeBytes_BigEndian(v) ==
    LET u == v % 65536
    IN  <<u \div 256, u % 256>>

\* i16::to_le_bytes: low byte first, two's complement
ToLeBytes(v) ==
    LET u == v % 65536
    IN  <<u % 256, u \div 256>>

RECURSIVE PcmBytes(_)
\* samples.iter().map(quantize).flat_map(|s| s.to_le_bytes()).collect()
PcmBytes(samples) ==
    IF samples = <<>> THEN <<>>
    ELSE ToLeBytes(Quantize(Head(samples))) \o PcmBytes(Tail(samples))

\* duration_ms of RecordingResult
DurationMs(n, rate, ch) ==
    IF rate > 0 /\ ch > 0 THEN (n * 1000) \div (rate * ch) ELSE 0

----------------------------------------------------------------------------
NoWorker ==
    [pc |-> "unspawned", stream |-> "none", fmt |-> "none", buf |-> 0,
     ready |-> "empty", readyRx |-> "none", stopMsg |-> FALSE, stopTx |-> "none"]

\* a command invocation: its number, the command, and start_recording's locals
\* (the worker it spawned, its buffer, the negotiated rate and channel count)
Call(n, op, w, b, rate, ch) ==
    [n |-> n, op |-> op, w |-> w, buf |-> b, rate |-> rate, ch |-> ch]

NoCall == Call(0, "none", 0, 0, 0, 0)

\* the locals of a command die when it returns
Returned(c) == Call(c.n, c.op, 0, 0, 0, 0)

NoRet ==
    [n |-> 0, op |-> "none", ok |-> FALSE, err |-> "", audio |-> <<>>,
     sample_rate |-> 0, channels |-> 0, duration_ms |-> 0]

Err(n, op, msg) ==
    [n |-> n, op |-> op, ok |-> FALSE, err |-> msg, audio |-> <<>>,
     sample_rate |-> 0, channels |-> 0, duration_ms |-> 0]

OkStart(n) ==
    [n |-> n, op |-> "start", ok |-> TRUE, err |-> "", audio |-> <<>>,
     sample_rate |-> 0, channels |-> 0, duration_ms |-> 0]

\* AudioState::new
AudioInit ==
    /\ is_recording = FALSE
    /\ buffer = 0
    /\ stop_tx = 0
    /\ sample_rate = 0
    /\ channels = 0
    /\ ctl = "none"
    /\ workers = [w \in Workers |-> NoWorker]
    /\ bufs = [b \in BufIds |-> <<>>]
    /\ call = NoCall
    /\ ret = NoRet
    /\ pending = [w \in Workers |-> <<>>]

\* the invocation number is kept modulo 2: it tells one invocation from the
\* one before it
NextCall == 1 - call.n

RECURSIVE TotalLen(_, _)
\* the number of samples in f[1], ..., f[n]
TotalLen(f, n) == IF n = 0 THEN 0 ELSE Len(f[n]) + TotalLen(f, n - 1)

\* the workers spawned so far are 1..Spawned
Spawned == Cardinality({w \in Workers : workers[w].pc # "unspawned"})

\* the buffer already in the state is cloned in place of a fresh one
FreshBuffer_Reused(w) == buffer

\* the buffer a start allocates for the worker it spawns: a fresh Arc
FreshBuffer(w) == w

(***************************************************************************)
(* start_recording, up to the readiness wait.  The state lock is taken at  *)
(* entry and held until the function returns.                              *)
(***************************************************************************)
\* line 100: the early return
StartRejected(n) ==
    /\ call' = Call(n, "start", 0, 0, 0, 0)
    /\ ret' = Err(n, "start", "Already recording")
    /\ UNCHANGED <<is_recording, buffer, stop_tx, sample_rate, channels,
                   ctl, workers, bufs, pending>>

\* lines 105-111: no input device, or no default input config
StartNoDevice(n) ==
    /\ \E msg \in {"No input device available", "Failed to get input config"} :
          ret' = Err(n, "start", msg)
    /\ call' = Call(n, "start", 0, 0, 0, 0)
    /\ UNCHANGED <<is_recording, buffer, stop_tx, sample_rate, channels,
                   ctl, workers, bufs, pending>>

\* lines 113-175: allocate the buffer and the two channels, spawn the worker
StartSpawn(n) ==
    /\ Spawned < MaxSessions
    /\ \E c \in Configs :
         LET w == Spawned + 1 IN
         /\ workers' = [workers EXCEPT ![w] =
               [pc |-> "build", stream |-> "none", fmt |-> c.fmt,
                buf |-> FreshBuffer(w), ready |-> "empty",
                readyRx |-> "alive", stopMsg |-> FALSE, stopTx |-> "local"]]
         /\ bufs' = [bufs EXCEPT ![FreshBuffer(w)] = <<>>]
         /\ call' = Call(n, "start", w, FreshBuffer(w), c.rate, c.ch)
    /\ ctl' = "start"
    /\ ret' = NoRet
    /\ UNCHANGED <<is_recording, buffer, stop_tx, sample_rate, channels, pending>>

StartCall_NoStateCheck ==
    /\ ctl = "none"
    /\ StartNoDevice(NextCall) \/ StartSpawn(NextCall)

StartCall ==
    /\ ctl = "none"
    /\ IF is_recording
       THEN StartRejected(NextCall)
       ELSE StartNoDevice(NextCall) \/ StartSpawn(NextCall)

(***************************************************************************)
(* The capture worker thread (the closure of thread::spawn).               *)
(***************************************************************************)
\* ready_tx.send(m) on the sync_channel(1): delivered while the receiver
\* lives, an Err the worker ignores once start_recording has returned
SendReady(wk, m) ==
    IF wk.readyRx = "alive" THEN [wk EXCEPT !.ready = m] ELSE wk

\* readiness sent as soon as the stream is built, before stream.play()
WorkerBuild_ReadyFirst(w) ==
    /\ workers[w].pc = "build"
    /\ workers' = [workers EXCEPT ![w] =
          [SendReady(@, "ok") EXCEPT !.pc = "play", !.stream = "built"]]
    /\ UNCHANGED <<is_recording, buffer, stop_tx, sample_rate, channels, ctl,
                   bufs, call, ret, pending>>

\* lines 125-159 and 171-173: build_input_stream, or the unsupported format
WorkerBuild(w) ==
    /\ workers[w].pc = "build"
    /\ IF workers[w].fmt \in {"F32", "I16"}
       THEN \/ workers' = [workers EXCEPT ![w] =
                  [@ EXCEPT !.pc = "play", !.stream = "built"]]
            \/ workers' = [workers EXCEPT ![w] =
                  [SendReady(@, "err_build") EXCEPT !.pc = "exited", !.fmt = "none"]]
       ELSE workers' = [workers EXCEPT ![w] =
                  [SendReady(@, "err_format") EXCEPT !.pc = "exited", !.fmt = "none"]]
    /\ UNCHANGED <<is_recording, buffer, stop_tx, sample_rate, channels, ctl,
                   bufs, call, ret, pending>>

\* lines 162 and 167-169: stream.play(); on failure the error is sent and the
\* stream dropped with the thread
WorkerPlay(w) ==
    /\ workers[w].pc = "play"
    /\ \/ workers' = [workers EXCEPT ![w] =
             [@ EXCEPT !.pc = "send_ready", !.stream = "playing"]]
       \/ workers' = [workers EXCEPT ![w] =
             [SendReady(@, "err_play") EXCEPT !.pc = "exited",
                                              !.stream = "dropped",
                                              !.fmt = "none"]]
    /\ UNCHANGED <<is_recording, buffer, stop_tx, sample_rate, channels, ctl,
                   bufs, call, ret, pending>>

\* line 164: ready_tx.send(Ok(()))
WorkerReady(w) ==
    /\ workers[w].pc = "send_ready"
    /\ workers' = [workers EXCEPT ![w] =
          [SendReady(@, "ok") EXCEPT !.pc = "wait_stop"]]
    /\ UNCHANGED <<is_recording, buffer, stop_tx, sample_rate, channels, ctl,
                   bufs, call, ret, pending>>

\* recv() that returns on a message only, as if a sender were kept alive
WorkerStop_NeedsMessage(w) ==
    /\ workers[w].pc = "wait_stop"
    /\ workers[w].stopMsg
    /\ workers' = [workers EXCEPT ![w] =
          [@ EXCEPT !.pc = "exited", !.stream = "dropped", !.stopMsg = FALSE,
                    !.fmt = "none"]]
    /\ UNCHANGED <<is_recording, buffer, stop_tx, sample_rate, channels, ctl,
                   bufs, call, ret, pending>>

\* line 165: stop_rx.recv() returns on a message or once every sender is gone;
\* the thread ends and drops the stream
WorkerStop(w) ==
    /\ workers[w].pc = "wait_stop"
    /\ workers[w].stopMsg \/ workers[w].stopTx = "dropped"
    /\ workers' = [workers EXCEPT ![w] =
          [@ EXCEPT !.pc = "exited", !.stream = "dropped", !.stopMsg = FALSE,
                    !.fmt = "none"]]
    /\ UNCHANGED <<is_recording, buffer, stop_tx, sample_rate, channels, ctl,
                   bufs, call, ret, pending>>

\* lines 130-134 and 143-147: the data callback of an open stream appends one
\* frame under the buffer lock.  cpal does not say on which hosts a stream
\* runs before play(), so a built stream may call back as well.
Callback(w) ==
    /\ workers[w].stream \in {"built", "playing"}
    /\ \E frame \in Frames(workers[w].fmt) :
         LET data == Normalize(workers[w].fmt, frame) IN
         /\ TotalLen(pending, MaxSessions) + Len(data) <= MaxSamples
         /\ bufs' = [bufs EXCEPT ![workers[w].buf] = @ \o data]
         /\ pending' = [pending EXCEPT ![w] = @ \o data]
    /\ UNCHANGED <<is_recording, buffer, stop_tx, sample_rate, channels, ctl,
                   workers, call, ret>>

(***************************************************************************)
(* start_recording, the readiness wait (lines 177-189).  Returning drops   *)
(* ready_rx and, unless it was stored, stop_tx.                            *)
(***************************************************************************)
\* Ok(Ok(())): the session is recorded
StartReadyOk ==
    /\ workers[call.w].ready = "ok"
    /\ buffer' = call.buf
    /\ stop_tx' = call.w
    /\ sample_rate' = call.rate
    /\ channels' = call.ch
    /\ is_recording' = TRUE
    /\ workers' = [workers EXCEPT ![call.w] =
          [@ EXCEPT !.ready = "empty", !.readyRx = "dropped", !.stopTx = "state"]]
    /\ ret' = OkStart(call.n)

StartReadyErr_Records ==
    /\ workers[call.w].ready \in {"err_format", "err_build", "err_play"}
    /\ buffer' = call.buf
    /\ stop_tx' = call.w
    /\ sample_rate' = call.rate
    /\ channels' = call.ch
    /\ is_recording' = TRUE
    /\ workers' = [workers EXCEPT ![call.w] =
          [@ EXCEPT !.ready = "empty", !.readyRx = "dropped", !.stopTx = "state"]]
    /\ ret' = Err(call.n, "start", "Failed to start stream")

\* Ok(Err(e)): the worker's error is returned
StartReadyErr ==
    /\ workers[call.w].ready \in {"err_format", "err_build", "err_play"}
    /\ workers' = [workers EXCEPT ![call.w] =
          [@ EXCEPT !.ready = "empty", !.readyRx = "dropped", !.stopTx = "dropped"]]
    /\ ret' = Err(call.n, "start",
                  CASE workers[call.w].ready = "err_format" -> "Unsupported sample format"
                    [] workers[call.w].ready = "err_build" -> "Failed to build stream"
                    [] OTHER -> "Failed to start stream")
    /\ UNCHANGED <<is_recording, buffer, stop_tx, sample_rate, channels>>

\* a recv() in place of recv_timeout(): without a message it never returns
StartTimeout_Blocks == FALSE

\* the timed-out call leaves its buffer and its format in the state
StartTimeout_KeepsSession ==
    /\ workers[call.w].ready = "empty"
    /\ workers' = [workers EXCEPT ![call.w] =
          [@ EXCEPT !.readyRx = "dropped", !.stopTx = "dropped"]]
    /\ ret' = Err(call.n, "start", "Recording thread timed out")
    /\ buffer' = call.buf
    /\ sample_rate' = call.rate
    /\ channels' = call.ch
    /\ UNCHANGED <<is_recording, stop_tx>>

\* Err(_): five seconds passed and no message came.  Time is not modelled:
\* the wait may end whenever the channel is empty.
StartTimeout ==
    /\ workers[call.w].ready = "empty"
    /\ workers' = [workers EXCEPT ![call.w] =
          [@ EXCEPT !.readyRx = "dropped", !.stopTx = "dropped"]]
    /\ ret' = Err(call.n, "start", "Recording thread timed out")
    /\ UNCHANGED <<is_recording, buffer, stop_tx, sample_rate, channels>>

StartFinish ==
    /\ ctl = "start"
    /\ StartReadyOk \/ StartReadyErr \/ StartTimeout
    /\ ctl' = "none"
    /\ call' = Returned(call)
    /\ UNCHANGED <<bufs, pending>>

(***************************************************************************)
(* stop_recording: lines 197-210 up to the grace sleep, then 215-244.      *)
(***************************************************************************)
\* line 203: the early return
StopRejected(n) ==
    /\ call' = Call(n, "stop", 0, 0, 0, 0)
    /\ ret' = Err(n, "stop", "Not recording")
    /\ UNCHANGED <<is_recording, buffer, stop_tx, sample_rate, channels,
                   ctl, workers, bufs, pending>>

\* the sender stays in the state, nothing is sent on it
StopSignal_NoSend(n) ==
    /\ call' = Call(n, "stop", stop_tx, buffer, sample_rate, channels)
    /\ is_recording' = FALSE
    /\ ctl' = "stop"
    /\ ret' = NoRet
    /\ UNCHANGED <<buffer, stop_tx, sample_rate, channels, workers, bufs,
                   pending>>

\* lines 207-210: take the sender, send on it, drop it; the send reaches the
\* worker's queue unless the worker's receiver is gone
StopSignal(n) ==
    /\ call' = Call(n, "stop", stop_tx, buffer, sample_rate, channels)
    /\ workers' = [w \in Workers |->
          IF w = stop_tx
          THEN [workers[w] EXCEPT !.stopMsg = (workers[w].pc # "exited"),
                                  !.stopTx = "dropped"]
          ELSE workers[w]]
    /\ stop_tx' = 0
    /\ is_recording' = FALSE
    /\ ctl' = "stop"
    /\ ret' = NoRet
    /\ UNCHANGED <<buffer, sample_rate, channels, bufs, pending>>

StopCall_NoStateCheck ==
    /\ ctl = "none"
    /\ StopSignal(NextCall)

\* stop_recording without the state lock
StopCall_NoLock ==
    IF ~is_recording THEN StopRejected(NextCall) ELSE StopSignal(NextCall)

StopCall ==
    /\ ctl = "none"
    /\ IF ~is_recording THEN StopRejected(NextCall) ELSE StopSignal(NextCall)

\* lines 215-244, after the 100 ms sleep: drain the buffer and build the
\* RecordingResult
StopDrain ==
    /\ ctl = "stop"
    /\ LET samples == bufs[buffer] IN
       /\ bufs' = [bufs EXCEPT ![buffer] = <<>>]
       /\ ret' = [n |-> call.n, op |-> "stop", ok |-> TRUE, err |-> "",
                  audio |-> PcmBytes(samples),
                  sample_rate |-> sample_rate, channels |-> channels,
                  duration_ms |-> DurationMs(Len(samples), sample_rate, channels)]
    /\ pending' = [w \in Workers |-> IF w = call.w THEN <<>> ELSE pending[w]]
    /\ ctl' = "none"
    /\ call' = Returned(call)
    /\ UNCHANGED <<is_recording, buffer, stop_tx, sample_rate, channels, workers>>

(***************************************************************************)
(* ------------------------  STREAM DECODER  ----------------------------- *)
(***************************************************************************)
VARIABLES
    backend,        \* which client serves the call: "openai" | "anthropic" | "vertexai"
    body,           \* the whole response body the server sends (bytes)
    wire,           \* the bytes of the body not yet delivered as a chunk
    sbuf,           \* the decoder's `buffer`
    full_text,      \* the decoder's `full_text`
    events,         \* the StreamChunks handed to sender.send, in order
    spc,            \* "request" | "streaming" | "returned"
    sres            \* what process_stream returned

streamVars == <<backend, body, wire, sbuf, full_text, events, spc, sres>>

\* one call of an AIProvider method, from create_provider on
VARIABLES
    env,            \* the process environment: the state of each credential variable
    ptype,          \* the ProviderType given to create_provider
    method,         \* the method called: "process" | "process_stream"
    requests,       \* the requests handed to send() during the call
    fault,          \* the transport failure met last: "none" | "timeout" | "other"
    http,           \* the response received: its status and the text of its body
    detail          \* what the result carries: an error's payload, a response's text

callVars == <<env, ptype, method, requests, fault, http, detail>>

\* the event channel between process_stream and its consumer
VARIABLES
    dec,            \* a decoder that sends into the channel: buffer, full_text, position
    chan,           \* the events in the channel
    rx,             \* the receiver: "open" | "closed"
    received,       \* the events the consumer took out of the channel
    cap             \* the capacity the caller gave the channel

chanVars == <<dec, chan, rx, received, cap>>

\* lines of one response body
MaxLines == 3
\* bytes of one response body
MaxBody == 18

\* Bytes.  A byte below 128 is the ASCII character; LeadC3 and ContA9 are the
\* two bytes of U+00E9.  A value from 1000 on stands for a run of ASCII bytes
\* without a newline ("data:", "[DONE]", a piece of JSON syntax): the decoder
\* appends such a run to its buffer as it is, however the chunks cut it.
NL == 10
CR == 13
SP == 32
LeadC3 == 195
ContA9 == 169
Replacement == 65533
\* data:   and   [DONE]
DataColon == 1000
DoneWord == 1005
\* "data: " and "[DONE]"
DataPrefix == <<DataColon, SP>>
DoneLiteral == <<DoneWord>>
\* {"choices":[{"delta":{"content":"   and   "}}]}
OpenA == 1001
CloseA == 1002
\* {"choices":[]}   and   {"choices":[{"delta":{}}]}
NoChoiceA == 1003
NoContentA == 1004
\* {"type":"content_block_delta","delta":{"type":"text_delta","text":"  and  "}}
OpenB == 1011
CloseB == 1012
\* {"type":"message_stop"}, {"type":"ping"}, and a content_block_delta whose
\* delta has no text
StopB == 1013
PingB == 1014
NoTextB == 1015

Chunk(content, done) == [content |-> content, done |-> done]

RECURSIVE Utf8From(_, _)
\* the characters of bytes[i..]
Utf8From(bytes, i) ==
    IF i > Len(bytes) THEN <<>>
    ELSE LET b == bytes[i] IN
         IF b < 128 \/ b >= 1000
         THEN <<b>> \o Utf8From(bytes, i + 1)
         ELSE IF /\ b >= 194 /\ b <= 223
                 /\ i < Len(bytes)
                 /\ bytes[i + 1] >= 128 /\ bytes[i + 1] <= 191
         THEN <<(b - 192) * 64 + (bytes[i + 1] - 128)>> \o Utf8From(bytes, i + 2)
         ELSE <<Replacement>> \o Utf8From(bytes, i + 1)

\* String::from_utf8_lossy on one chunk: a two-byte sequence decodes to its
\* character, a lead byte without its continuation and a continuation byte
\* without its lead are each replaced by U+FFFD (the bytes of the model hold
\* no lead byte of a longer sequence)
Utf8Lossy(bytes) == Utf8From(bytes, 1)

RECURSIVE FindFrom(_, _)
FindFrom(s, i) ==
    IF i > Len(s) THEN 0 ELSE IF s[i] = NL THEN i ELSE FindFrom(s, i + 1)

\* buffer.find('\n'): the position of the first newline, 0 for None
FindNewline(s) == FindFrom(s, 1)

IsSpace(c) == c \in {SP, CR, NL, 9}

RECURSIVE TrimStart(_)
TrimStart(s) ==
    IF s # <<>> /\ IsSpace(Head(s)) THEN TrimStart(Tail(s)) ELSE s

RECURSIVE TrimEnd(_)
TrimEnd(s) ==
    IF s # <<>> /\ IsSpace(s[Len(s)]) THEN TrimEnd(SubSeq(s, 1, Len(s) - 1)) ELSE s

\* str::trim
Trim(s) == TrimEnd(TrimStart(s))

\* extract_sse_data: line.strip_prefix("data: "); has = FALSE for None
ExtractSseData(line) ==
    IF Len(line) >= Len(DataPrefix) /\ SubSeq(line, 1, Len(DataPrefix)) = DataPrefix
    THEN [has |-> TRUE, data |-> SubSeq(line, Len(DataPrefix) + 1, Len(line))]
    ELSE [has |-> FALSE, data |-> <<>>]

\* a character that may stand unescaped inside a JSON string (U+FFFD is one;
\* the values from 1000 to 1999 are not characters but pieces of syntax)
IsPlain(c) == c >= 32 /\ (c < 1000 \/ c = Replacement) /\ c # 34 /\ c # 92

\* the text between an opening and a closing piece of JSON syntax
Quoted(data, open, close) ==
    IF /\ Len(data) >= 2
       /\ data[1] = open
       /\ data[Len(data)] = close
       /\ \A i \in 2..(Len(data) - 1) : IsPlain(data[i])
    THEN [ok |-> TRUE, text |-> SubSeq(data, 2, Len(data) - 1)]
    ELSE [ok |-> FALSE, text |-> <<>>]

\* serde_json::from_str::<OpenAIStreamResponse>(data), then
\* parsed.choices.first() and choice.delta.content:
\* ok = FALSE for a parse error; has = TRUE when a content is there
ParseOpenAI(data) ==
    IF Quoted(data, OpenA, CloseA).ok
    THEN [ok |-> TRUE, has |-> TRUE, text |-> Quoted(data, OpenA, CloseA).text]
    ELSE IF data = <<NoChoiceA>> \/ data = <<NoContentA>>
    THEN [ok |-> TRUE, has |-> FALSE, text |-> <<>>]
    ELSE [ok |-> FALSE, has |-> FALSE, text |-> <<>>]

\* serde_json::from_str::<AnthropicStreamEvent>(data): the event type, and
\* delta.text when the event has one
ParseAnthropic(data) ==
    IF Quoted(data, OpenB, CloseB).ok
    THEN [ok |-> TRUE, type |-> "content_block_delta", has |-> TRUE,
          text |-> Quoted(data, OpenB, CloseB).text]
    ELSE IF data = <<NoTextB>>
    THEN [ok |-> TRUE, type |-> "content_block_delta", has |-> FALSE, text |-> <<>>]
    ELSE IF data = <<StopB>>
    THEN [ok |-> TRUE, type |-> "message_stop", has |-> FALSE, text |-> <<>>]
    ELSE IF data = <<PingB>>
    THEN [ok |-> TRUE, type |-> "ping", has |-> FALSE, text |-> <<>>]
    ELSE [ok |-> FALSE, type |-> "", has |-> FALSE, text |-> <<>>]

\* The decoder's locals: buffer, full_text, the chunks given to sender.send,
\* and whether the function has returned from inside the line loop.
Decoder(b, t, e, r) == [buffer |-> b, full_text |-> t, events |-> e, returned |-> r]

\* the content sent without full_text.push_str
EmitDelta_NoPush(d, text) ==
    [d EXCEPT !.events = Append(@, Chunk(text, FALSE))]

\* a content delta: full_text.push_str(content); sender.send(content, false)
EmitDelta(d, text) ==
    [d EXCEPT !.full_text = @ \o text,
              !.events = Append(@, Chunk(text, FALSE))]

\* the terminal event sent, and the loop going on
EmitDone_NoReturn(d) ==
    [d EXCEPT !.events = Append(@, Chunk(<<>>, TRUE))]

\* the terminal event: sender.send("", true); return Ok(full_text)
EmitDone(d) ==
    [d EXCEPT !.events = Append(@, Chunk(<<>>, TRUE)), !.returned = TRUE]

\* a payload that fails to parse ends the decoder
OpenAILine_AbortOnBadJson(d, line) ==
    IF line = <<>> THEN d
    ELSE IF ~ExtractSseData(line).has THEN d
    ELSE LET data == ExtractSseData(line).data IN
         IF data = DoneLiteral THEN EmitDone(d)
         ELSE IF ~ParseOpenAI(data).ok THEN [d EXCEPT !.returned = TRUE]
         ELSE IF ParseOpenAI(data).has
         THEN EmitDelta(d, ParseOpenAI(data).text)
         ELSE d

\* parse_openai_stream, lines 59-87: one line of the buffer
OpenAILine(d, line) ==
    IF line = <<>> THEN d
    ELSE IF ~ExtractSseData(line).has THEN d
    ELSE LET data == ExtractSseData(line).data IN
         IF data = DoneLiteral THEN EmitDone(d)
         ELSE IF ParseOpenAI(data).ok /\ ParseOpenAI(data).has
         THEN EmitDelta(d, ParseOpenAI(data).text)
         ELSE d

\* the match on event_type left out: every event that parses is a delta
AnthropicLine_NoTypeMatch(d, line) ==
    IF line = <<>> THEN d
    ELSE IF ~ExtractSseData(line).has THEN d
    ELSE LET ev == ParseAnthropic(ExtractSseData(line).data) IN
         IF ~ev.ok THEN d
         ELSE EmitDelta(d, ev.text)

\* parse_anthropic_stream, lines 111-143: one line of the buffer
AnthropicLine(d, line) ==
    IF line = <<>> THEN d
    ELSE IF ~ExtractSseData(line).has THEN d
    ELSE LET ev == ParseAnthropic(ExtractSseData(line).data) IN
         IF ~ev.ok THEN d
         ELSE IF ev.type = "content_block_delta"
         THEN (IF ev.has THEN EmitDelta(d, ev.text) ELSE d)
         ELSE IF ev.type = "message_stop" THEN EmitDone(d)
         ELSE d

HandleLine(g, d, line) ==
    IF g = "openai" THEN OpenAILine(d, line) ELSE AnthropicLine(d, line)

RECURSIVE DrainLines(_, _)
\* the inner loop: while let Some(newline_pos) = buffer.find('\n')
DrainLines(g, d) ==
    LET pos == FindNewline(d.buffer) IN
    IF d.returned \/ pos = 0 THEN d
    ELSE LET line == Trim(SubSeq(d.buffer, 1, pos - 1))
             rest == SubSeq(d.buffer, pos + 1, Len(d.buffer))
         IN  DrainLines(g, HandleLine(g, [d EXCEPT !.buffer = rest], line))

\* one turn of the outer loop: buffer.push_str(from_utf8_lossy(chunk)), then
\* the inner loop
FeedChunk(g, d, chunk) ==
    DrainLines(g, [d EXCEPT !.buffer = @ \o Utf8Lossy(chunk)])

----------------------------------------------------------------------------
\* The lines a server may send, without their newline.
ContentLine(open, text, close) == DataPrefix \o <<open>> \o text \o <<close>>

LinesOf(g) ==
    IF g = "openai"
    THEN { ContentLine(OpenA, <<97>>, CloseA) \o <<CR>>,
           ContentLine(OpenA, <<LeadC3, ContA9>>, CloseA),
           DataPrefix \o DoneLiteral,
           DataPrefix \o <<123>>,
           DataPrefix \o <<NoContentA>>,
           <<>> }
    ELSE { ContentLine(OpenB, <<97>>, CloseB) \o <<CR>>,
           ContentLine(OpenB, <<LeadC3, ContA9>>, CloseB),
           DataPrefix \o <<StopB>>,
           DataPrefix \o <<123>>,
           DataPrefix \o <<PingB>>,
           <<>> }

RECURSIVE Bodies(_, _)
\* the bodies of at most n lines, each line ended by a newline
Bodies(g, n) ==
    IF n = 0 THEN { <<>> }
    ELSE LET shorter == Bodies(g, n - 1) IN
         shorter \cup
         { b \o l \o <<NL>> : b \in shorter, l \in LinesOf(g) }

\* a body may also end in a line the server never terminated
Streams(g) ==
    { b \in Bodies(g, MaxLines) \cup
             { b \o l : b \in Bodies(g, MaxLines - 1), l \in LinesOf(g) \ {<<>>} } :
      Len(b) <= MaxBody }

StreamInit ==
    /\ backend \in {"openai", "anthropic"}
    /\ body \in Streams(backend)
    /\ wire = body
    /\ sbuf = <<>>
    /\ full_text = <<>>
    /\ events = <<>>
    /\ spc = "request"
    /\ sres = "none"

(***************************************************************************)
(* The provider clients of ai/client.rs.                                   *)
(***************************************************************************)
ProviderTypes == {"vertexai", "openai", "anthropic"}
EnvVars == {"GOOGLE_CLOUD_PROJECT", "OPENAI_API_KEY", "ANTHROPIC_API_KEY"}

\* the variable create_provider reads for a provider type
CredentialOf(t) ==
    CASE t = "vertexai" -> "GOOGLE_CLOUD_PROJECT"
      [] t = "openai" -> "OPENAI_API_KEY"
      [] OTHER -> "ANTHROPIC_API_KEY"

Detail(status, text, name) == [status |-> status, text |-> text, name |-> name]
NoDetail == Detail(0, <<>>, "")
NoResponse == [status |-> 0, text |-> <<>>]

\* the statuses a server answers with
Statuses == {200, 404, 500}
\* StatusCode::is_success
IsSuccess(status) == status >= 200 /\ status < 300

\* every credential present but the named one
create_provider_SkipsMissing(t, e) ==
    IF e[CredentialOf(t)] = "set"
    THEN [ok |-> TRUE, variant |-> t, missing |-> ""]
    ELSE IF \E u \in ProviderTypes : e[CredentialOf(u)] = "set"
    THEN [ok |-> TRUE,
          variant |-> CHOOSE u \in ProviderTypes : e[CredentialOf(u)] = "set",
          missing |-> ""]
    ELSE [ok |-> FALSE, variant |-> "none", missing |-> CredentialOf(t)]

\* create_provider: std::env::var is Err for a variable that is not set and
\* for one whose value is not Unicode
create_provider(t, e) ==
    IF e[CredentialOf(t)] = "set"
    THEN [ok |-> TRUE, variant |-> t, missing |-> ""]
    ELSE [ok |-> FALSE, variant |-> "none", missing |-> CredentialOf(t)]

\* the caller makes the client, then calls the method on it
CreateProvider ==
    /\ spc = "create"
    /\ LET r == create_provider(ptype, env) IN
       IF r.ok
       THEN /\ backend' = r.variant
            /\ spc' = IF r.variant = "vertexai" THEN "token" ELSE "request"
            /\ UNCHANGED <<sres, detail>>
       ELSE /\ sres' = "ApiKeyMissing"
            /\ detail' = Detail(0, <<>>, r.missing)
            /\ spc' = "returned"
            /\ backend' = backend
    /\ UNCHANGED <<body, wire, sbuf, full_text, events,
                   env, ptype, method, requests, fault, http>>

\* VertexAIClient::get_access_token, the first step of VertexAIClient::process
GetAccessToken ==
    /\ spc = "token"
    /\ backend = "vertexai"
    /\ \/ \* gcloud could not be run
          /\ sres' = "RequestFailed"
          /\ detail' = Detail(0, <<>>, "Failed to run gcloud")
          /\ spc' = "returned"
       \/ \* gcloud exited with a failure
          /\ sres' = "ApiKeyMissing"
          /\ detail' = Detail(0, <<>>, "gcloud auth failed")
          /\ spc' = "returned"
       \/ \* the token
          /\ spc' = "request"
          /\ UNCHANGED <<sres, detail>>
    /\ UNCHANGED <<backend, body, wire, sbuf, full_text, events,
                   env, ptype, method, requests, fault, http>>

\* the response texts a non-streaming call may give, and the texts of an
\* error body
Texts == { <<>>, <<97>> }

\* the request of every process and process_stream: send(), then the check
\* of the status; `next` is where a 2xx response leads
SendRequest_Retries(next) ==
    /\ \E k \in {1, 2} : requests' = requests + k
    /\ \/ /\ \E f \in {"timeout", "other"} :
               /\ fault' = f
               /\ sres' = IF f = "timeout" THEN "Timeout" ELSE "RequestFailed"
          /\ detail' = Detail(0, <<>>, "send")
          /\ http' = http
          /\ spc' = "returned"
       \/ /\ \E st \in Statuses, t \in Texts, f \in {"none", "timeout", "other"} :
               /\ ~IsSuccess(st)
               /\ http' = [status |-> st, text |-> t]
               /\ fault' = f
               /\ detail' = Detail(st, IF f = "none" THEN t ELSE <<>>, "HTTP")
          /\ sres' = "RequestFailed"
          /\ spc' = "returned"
       \/ /\ \E st \in Statuses, t \in (IF next = "response" THEN Texts ELSE {<<>>}) :
               /\ IsSuccess(st)
               /\ http' = [status |-> st, text |-> t]
          /\ spc' = next
          /\ UNCHANGED <<sres, fault, detail>>

SendRequest(next) ==
    /\ requests' = requests + 1
    /\ \/ \* send() failed: a timeout, or another transport error
          /\ \E f \in {"timeout", "other"} :
               /\ fault' = f
               /\ sres' = IF f = "timeout" THEN "Timeout" ELSE "RequestFailed"
          /\ detail' = Detail(0, <<>>, "send")
          /\ http' = http
          /\ spc' = "returned"
       \/ \* a status that is not 2xx: the body is read with text(), and is ""
          \* when reading it fails
          /\ \E st \in Statuses, t \in Texts, f \in {"none", "timeout", "other"} :
               /\ ~IsSuccess(st)
               /\ http' = [status |-> st, text |-> t]
               /\ fault' = f
               /\ detail' = Detail(st, IF f = "none" THEN t ELSE <<>>, "HTTP")
          /\ sres' = "RequestFailed"
          /\ spc' = "returned"
       \/ \* 2xx
          /\ \E st \in Statuses, t \in (IF next = "response" THEN Texts ELSE {<<>>}) :
               /\ IsSuccess(st)
               /\ http' = [status |-> st, text |-> t]
          /\ spc' = next
          /\ UNCHANGED <<sres, fault, detail>>

(***************************************************************************)
(* process_stream of OpenAIClient (client.rs 96-130) and AnthropicClient   *)
(* (219-254): the request, then the decoder over the response.             *)
(***************************************************************************)
StreamRequest ==
    /\ spc = "request"
    /\ method = "process_stream"
    /\ backend \in {"openai", "anthropic"}
    /\ SendRequest("streaming")
    /\ UNCHANGED <<backend, body, wire, sbuf, full_text, events, env, ptype, method>>

\* stream.next() yields the next chunk of the body: any non-empty prefix of
\* what is left
ChunkArrives ==
    /\ spc = "streaming"
    /\ wire # <<>>
    /\ \E n \in 1..Len(wire) :
         LET d == FeedChunk(backend, Decoder(sbuf, full_text, events, FALSE),
                            SubSeq(wire, 1, n))
         IN  /\ wire' = SubSeq(wire, n + 1, Len(wire))
             /\ sbuf' = d.buffer
             /\ full_text' = d.full_text
             /\ events' = d.events
             /\ spc' = IF d.returned THEN "returned" ELSE "streaming"
             /\ sres' = IF d.returned THEN "Ok" ELSE sres
    /\ UNCHANGED <<backend, body, callVars>>

\* the failed read sends a terminal event before it returns
ChunkFails_SendsDone ==
    /\ spc = "streaming"
    /\ \E f \in {"timeout", "other"} : fault' = f
    /\ sres' = "StreamError"
    /\ detail' = Detail(0, <<>>, "stream")
    /\ spc' = "returned"
    /\ events' = Append(events, Chunk(<<>>, TRUE))
    /\ UNCHANGED <<backend, body, wire, sbuf, full_text,
                   env, ptype, method, requests, http>>

\* stream.next() yields an error, a timeout or another one: line 51 / 104
ChunkFails ==
    /\ spc = "streaming"
    /\ \E f \in {"timeout", "other"} : fault' = f
    /\ sres' = "StreamError"
    /\ detail' = Detail(0, <<>>, "stream")
    /\ spc' = "returned"
    /\ UNCHANGED <<backend, body, wire, sbuf, full_text, events,
                   env, ptype, method, requests, http>>

\* at the end of the response what is left in the buffer is decoded as a line
StreamEnds_FlushesBuffer ==
    /\ spc = "streaming"
    /\ wire = <<>>
    /\ LET d == HandleLine(backend, Decoder(<<>>, full_text, events, FALSE),
                           Trim(sbuf))
       IN  /\ sbuf' = d.buffer
           /\ full_text' = d.full_text
           /\ events' = d.events
    /\ sres' = "Ok"
    /\ spc' = "returned"
    /\ UNCHANGED <<backend, body, wire, callVars>>

\* stream.next() yields None: the server closed the response (line 91 / 147)
StreamEnds ==
    /\ spc = "streaming"
    /\ wire = <<>>
    /\ sres' = "Ok"
    /\ spc' = "returned"
    /\ UNCHANGED <<backend, body, wire, sbuf, full_text, events, callVars>>

(***************************************************************************)
(* process of the three clients (client.rs 45-94, 166-217, 309-361).       *)
(***************************************************************************)
ProcessRequest ==
    /\ spc = "request"
    /\ method = "process" \/ backend = "vertexai"
    /\ SendRequest("response")
    /\ UNCHANGED <<backend, body, wire, sbuf, full_text, events, env, ptype, method>>

\* response.json(), then the text at the provider's path
ProcessJson ==
    /\ spc = "response"
    /\ \/ \* json() failed: the body is not JSON ("none"), or reading it timed
          \* out or broke off
          /\ \E f \in {"none", "timeout", "other"} : fault' = f
          /\ sres' = "ParseError"
          /\ detail' = Detail(0, <<>>, "json")
          /\ spc' = "returned"
       \/ \* as_str().unwrap_or(""): the text, "" when the body has none
          /\ sres' = "Ok"
          /\ detail' = Detail(0, http.text, "")
          /\ spc' = IF method = "process_stream" THEN "processed" ELSE "returned"
          /\ fault' = fault
    /\ UNCHANGED <<backend, body, wire, sbuf, full_text, events,
                   env, ptype, method, requests, http>>

\* the event sent with done = false
VertexStream_NotTerminal ==
    /\ spc = "processed"
    /\ backend = "vertexai"
    /\ method = "process_stream"
    /\ events' = Append(events, Chunk(detail.text, FALSE))
    /\ sres' = "Ok"
    /\ spc' = "returned"
    /\ UNCHANGED <<backend, body, wire, sbuf, full_text, callVars>>

\* VertexAIClient::process_stream (client.rs 363-376) after self.process
\* returned Ok: one terminal event carrying the whole text (an Err of
\* self.process has left through `?`)
VertexStream ==
    /\ spc = "processed"
    /\ backend = "vertexai"
    /\ method = "process_stream"
    /\ events' = Append(events, Chunk(detail.text, TRUE))
    /\ sres' = "Ok"
    /\ spc' = "returned"
    /\ UNCHANGED <<backend, body, wire, sbuf, full_text, callVars>>

(***************************************************************************)
(* The decoders with the event channel: a bounded tokio mpsc channel whose *)
(* receiver the caller of process_stream holds.  Each `.await` of a send   *)
(* is a step of its own.  Beside the decoder `dec`, the variables sbuf,    *)
(* full_text and events hold the decoder that is given the same chunks and *)
(* whose sends all succeed at once.                                        *)
(***************************************************************************)
\* try_send in place of send: a full channel loses the event
Send_DropsWhenFull(ev) ==
    \/ rx = "closed" /\ chan' = chan
    \/ rx = "open" /\ Len(chan) < cap /\ chan' = Append(chan, ev)
    \/ rx = "open" /\ Len(chan) >= cap /\ chan' = chan

\* let _ = sender.send(ev).await: Err at once when the receiver is gone (the
\* Err is dropped), else the event is queued as soon as there is room
Send(ev) ==
    \/ rx = "closed" /\ chan' = chan
    \/ rx = "open" /\ Len(chan) < cap /\ chan' = Append(chan, ev)

\* the inner loop goes on while the buffer holds a newline
LoopPc(b) == IF FindNewline(b) # 0 THEN "lines" ELSE "next"

\* stream.next() yields a chunk: buffer.push_str(from_utf8_lossy(chunk))
ChanChunk ==
    /\ spc = "streaming"
    /\ dec.pc = "next"
    /\ wire # <<>>
    /\ \E n \in 1..Len(wire) :
         LET chunk == SubSeq(wire, 1, n)
             d == FeedChunk(backend, Decoder(sbuf, full_text, events, FALSE), chunk)
         IN  /\ wire' = SubSeq(wire, n + 1, Len(wire))
             /\ dec' = [dec EXCEPT !.buffer = @ \o Utf8Lossy(chunk),
                                   !.pc = LoopPc(dec.buffer \o Utf8Lossy(chunk))]
             /\ sbuf' = d.buffer
             /\ full_text' = d.full_text
             /\ events' = d.events
    /\ UNCHANGED <<backend, body, spc, sres, callVars, chan, rx, received, cap>>

\* a failed send ends the decoder with an error
ChanLine_StopsWhenClosed ==
    /\ spc = "streaming"
    /\ dec.pc = "lines"
    /\ LET pos == FindNewline(dec.buffer)
           line == Trim(SubSeq(dec.buffer, 1, pos - 1))
           rest == SubSeq(dec.buffer, pos + 1, Len(dec.buffer))
           d == HandleLine(backend, Decoder(rest, dec.full_text, <<>>, FALSE), line)
           failed == d.events # <<>> /\ rx = "closed"
       IN  /\ IF d.events = <<>> THEN chan' = chan ELSE Send(d.events[1])
           /\ dec' = [buffer |-> d.buffer, full_text |-> d.full_text,
                      pc |-> IF d.returned \/ failed THEN "returned" ELSE LoopPc(d.buffer)]
           /\ spc' = IF d.returned \/ failed THEN "returned" ELSE spc
           /\ sres' = IF failed THEN "StreamError" ELSE IF d.returned THEN "Ok" ELSE sres
    /\ UNCHANGED <<backend, body, wire, sbuf, full_text, events, callVars,
                   rx, received, cap>>

\* one turn of the inner loop (streaming.rs 55-88, 107-144): the line is
\* taken off the buffer and handled; the turn ends when its send, if it has
\* one, is over
ChanLine ==
    /\ spc = "streaming"
    /\ dec.pc = "lines"
    /\ LET pos == FindNewline(dec.buffer)
           line == Trim(SubSeq(dec.buffer, 1, pos - 1))
           rest == SubSeq(dec.buffer, pos + 1, Len(dec.buffer))
           d == HandleLine(backend, Decoder(rest, dec.full_text, <<>>, FALSE), line)
       IN  /\ IF d.events = <<>> THEN chan' = chan ELSE Send(d.events[1])
           /\ dec' = [buffer |-> d.buffer, full_text |-> d.full_text,
                      pc |-> IF d.returned THEN "returned" ELSE LoopPc(d.buffer)]
           /\ spc' = IF d.returned THEN "returned" ELSE spc
           /\ sres' = IF d.returned THEN "Ok" ELSE sres
    /\ UNCHANGED <<backend, body, wire, sbuf, full_text, events, callVars,
                   rx, received, cap>>

\* stream.next() yields an error
ChanFails == dec.pc = "next" /\ ChunkFails /\ UNCHANGED chanVars

\* stream.next() yields None
ChanEnds == dec.pc = "next" /\ StreamEnds /\ UNCHANGED chanVars

\* the consumer takes an event out of the channel
Receive ==
    /\ rx = "open"
    /\ chan # <<>>
    /\ received' = Append(received, Head(chan))
    /\ chan' = Tail(chan)
    /\ UNCHANGED <<streamVars, callVars, dec, rx, cap>>

\* the consumer drops the receiver: the channel closes and the events still
\* in it are lost
Disconnect ==
    /\ rx = "open"
    /\ rx' = "closed"
    /\ chan' = <<>>
    /\ UNCHANGED <<streamVars, callVars, dec, received, cap>>

(***************************************************************************)
(* --------------------------  WAV ENCODING  ----------------------------- *)
(***************************************************************************)
\* samples given to pcm_f32_to_wav in one call
MaxWavSamples == 4
\* bytes given to pcm_bytes_to_wav in one call
MaxRawBytes == 4

VARIABLES
    enc,            \* the arguments of one encoder call: the function, its
                    \* input (f32 samples or raw bytes), sample_rate, channels
    wav             \* what the call returned

encVars == <<enc, wav>>

WHISPER_SAMPLE_RATE == 16000
MONO_CHANNELS == 1
BITS_PER_SAMPLE == 16

\* the four-byte tags of a RIFF/WAVE container
RiffTag == <<82, 73, 70, 70>>
WaveTag == <<87, 65, 86, 69>>
FmtTag == <<102, 109, 116, 32>>
DataTag == <<100, 97, 116, 97>>

\* u16 and u32 in little-endian bytes
Le16(v) == <<v % 256, (v \div 256) % 256>>
Le32(v) ==
    <<v % 256, (v \div 256) % 256, (v \div 65536) % 256,
      (v \div 16777216) % 256>>

\* i16::from_le_bytes([lo, hi])
FromLeBytes(lo, hi) ==
    LET u == lo + 256 * hi
    IN  IF u >= 32768 THEN u - 65536 ELSE u

RECURSIVE SampleBytes_HighFirst(_)
\* the two bytes of every sample written high byte first
SampleBytes_HighFirst(ints) ==
    IF ints = <<>> THEN <<>>
    ELSE ToLeBytes_BigEndian(Head(ints)) \o SampleBytes_HighFirst(Tail(ints))

RECURSIVE SampleBytes(_)
\* writer.write_sample(v) for each i16 of the sequence: two bytes, low first
SampleBytes(ints) ==
    IF ints = <<>> THEN <<>>
    ELSE ToLeBytes(Head(ints)) \o SampleBytes(Tail(ints))

\* a header without the RIFF chunk size
WavHeader_NoSize(rate, ch, dataLen) ==
    RiffTag \o WaveTag
        \o FmtTag \o Le32(16) \o Le16(1) \o Le16(ch) \o Le32(rate)
        \o Le32(rate * ch * (BITS_PER_SAMPLE \div 8))
        \o Le16(ch * (BITS_PER_SAMPLE \div 8)) \o Le16(BITS_PER_SAMPLE)
        \o DataTag \o Le32(dataLen)

\* What WavWriter::new writes for WavSpec { channels, sample_rate,
\* bits_per_sample: 16, sample_format: Int } and at most two channels, with
\* the two lengths that finalize fills in: the 44-byte PCM header.
WavHeader(rate, ch, dataLen) ==
    RiffTag \o Le32(36 + dataLen) \o WaveTag
        \o FmtTag \o Le32(16) \o Le16(1) \o Le16(ch) \o Le32(rate)
        \o Le32(rate * ch * (BITS_PER_SAMPLE \div 8))
        \o Le16(ch * (BITS_PER_SAMPLE \div 8)) \o Le16(BITS_PER_SAMPLE)
        \o DataTag \o Le32(dataLen)

WavOk(bytes) == [ok |-> TRUE, bytes |-> bytes, err |-> "none"]
FormatError == [ok |-> FALSE, bytes |-> <<>>, err |-> "FormatError"]
NoWav == [ok |-> FALSE, bytes |-> <<>>, err |-> "none"]

\* WavWriter::new, write_sample for every i16, finalize, into_inner.  finalize
\* fails when the samples written are not a whole number of frames of
\* `channels` samples; every error is mapped to VoiceError::FormatError.
WriteWav(ints, rate, ch) ==
    IF Len(ints) % ch # 0 THEN FormatError
    ELSE WavOk(WavHeader(rate, ch, 2 * Len(ints)) \o SampleBytes(ints))

\* `x as i16` for a float x that is not NaN: truncated toward zero by
\* TruncDiv, then saturated at the ends of the i16 range
CastI16(v) ==
    IF v < -32768 THEN -32768 ELSE IF v > 32767 THEN 32767 ELSE v

\* quantization without the clamp
QuantizeF32_NoClamp(s) ==
    IF s = NaN THEN 0 ELSE CastI16(TruncDiv(s * I16Max, Unit))

\* let clamped = sample.clamp(-1.0, 1.0); (clamped * i16::MAX as f32) as i16
QuantizeF32(s) ==
    IF Clamp(s) = NaN THEN 0
    ELSE CastI16(TruncDiv(Clamp(s) * I16Max, Unit))

\* pcm_f32_to_wav(samples, sample_rate, channels)
pcm_f32_to_wav(samples, rate, ch) ==
    WriteWav([k \in DOMAIN samples |-> QuantizeF32(samples[k])], rate, ch)

\* the odd-length check left out
pcm_bytes_to_wav_NoLengthCheck(raw_bytes, rate, ch) ==
    WriteWav([k \in 1..(Len(raw_bytes) \div 2) |->
                 FromLeBytes(raw_bytes[2 * k - 1], raw_bytes[2 * k])],
             rate, ch)

\* pcm_bytes_to_wav(raw_bytes, sample_rate, channels)
pcm_bytes_to_wav(raw_bytes, rate, ch) ==
    IF Len(raw_bytes) % 2 # 0 THEN FormatError
    ELSE WriteWav([k \in 1..(Len(raw_bytes) \div 2) |->
                      FromLeBytes(raw_bytes[2 * k - 1], raw_bytes[2 * k])],
                  rate, ch)

\* the f32 samples a caller passes: 0.0, 0.5, -0.5, 2.0, -2.0 and NaN
F32Samples == {0, Unit \div 2, -(Unit \div 2), 2 * Unit, -2 * Unit, NaN}
\* the bytes a caller passes
RawBytes == {0, 1, 128, 255}
\* the sample rates and channel counts a caller passes
Rates == {WHISPER_SAMPLE_RATE, 48000}
ChannelCounts == {MONO_CHANNELS, 2}

RECURSIVE SeqsUpTo(_, _)
\* the sequences over S of length at most n
SeqsUpTo(S, n) ==
    IF n = 0 THEN { <<>> }
    ELSE LET shorter == SeqsUpTo(S, n - 1)
         IN  shorter \cup { Append(s, x) : s \in shorter, x \in S }

EncoderCalls ==
    { [fn |-> "pcm_f32_to_wav", input |-> s, sample_rate |-> r, channels |-> c]
        : s \in SeqsUpTo(F32Samples, MaxWavSamples), r \in Rates,
          c \in ChannelCounts }
    \cup
    { [fn |-> "pcm_bytes_to_wav", input |-> b, sample_rate |-> r,
       channels |-> c]
        : b \in SeqsUpTo(RawBytes, MaxRawBytes), r \in Rates,
          c \in ChannelCounts }

NoEncoderCall ==
    [fn |-> "none", input |-> <<>>, sample_rate |-> 0, channels |-> 0]

EncoderIdle == enc = NoEncoderCall /\ wav = NoWav

EncoderInit == enc \in EncoderCalls /\ wav = NoWav

\* one call of pcm_f32_to_wav
EncodeF32 ==
    /\ enc.fn = "pcm_f32_to_wav"
    /\ wav = NoWav
    /\ wav' = pcm_f32_to_wav(enc.input, enc.sample_rate, enc.channels)
    /\ UNCHANGED enc

\* one call of pcm_bytes_to_wav
EncodeRaw ==
    /\ enc.fn = "pcm_bytes_to_wav"
    /\ wav = NoWav
    /\ wav' = pcm_bytes_to_wav(enc.input, enc.sample_rate, enc.channels)
    /\ UNCHANGED enc

(***************************************************************************)
(* ---------------------  TRANSCRIPTION PIPELINE  ------------------------ *)
(***************************************************************************)
\* samples in the buffer given to transcribe_chunked
MaxPcm == 3
\* the largest chunk size a pipeline is built with
MaxChunk == 2

VARIABLES
    pcm_f32,        \* the sample buffer given to transcribe_chunked
    chunk_samples,  \* TranscriptionPipeline.chunk_samples
    on_interim,     \* TRUE when a callback is supplied
    tpc,            \* where transcribe_chunked stands: "call" | "loop" |
                    \* "transcribe" | "reply" | "returned" | "panicked"
    tl,             \* its locals: i, full_text, last_timestamp
    reply,          \* what the backend call that returned last answered
    tres,           \* what transcribe_chunked returned
    calls,          \* history: the WAV data of every backend call started
    texts,          \* history: the text of every backend call that succeeded
    interim         \* history: the results handed to the callback

pipeVars == <<pcm_f32, chunk_samples, on_interim, tpc, tl, reply, tres, calls,
              texts, interim>>

\* TranscriptionResult { text, confidence, is_final, timestamp }
TranscriptionResult(text, final, stamp) ==
    [text |-> text, confidence |-> "1.0", is_final |-> final,
     timestamp |-> stamp]

NoReply == [text |-> <<>>, confidence |-> "none", is_final |-> FALSE,
            timestamp |-> 0]

\* the return value of transcribe_chunked
TOk(result) == [ok |-> TRUE, err |-> "none", result |-> result]
TErr(e) == [ok |-> FALSE, err |-> e, result |-> NoReply]
NoTRes == [ok |-> FALSE, err |-> "none", result |-> NoReply]

\* what a backend answers: a text, any flag, a timestamp
BackendTexts == { <<>>, <<97>>, <<98>> }
BackendStamps == {1, 2}
BackendResults ==
    { [text |-> t, confidence |-> c, is_final |-> f, timestamp |-> s]
        : t \in BackendTexts, c \in {"0.9"}, f \in BOOLEAN,
          s \in BackendStamps }

\* slice::chunks_exact in place of slice::chunks: the remainder is dropped
RECURSIVE Chunks_DropRemainder(_, _)
Chunks_DropRemainder(s, c) ==
    IF Len(s) < c THEN <<>>
    ELSE <<SubSeq(s, 1, c)>> \o Chunks_DropRemainder(SubSeq(s, c + 1, Len(s)), c)

RECURSIVE Chunks(_, _)
\* pcm_f32.chunks(c).collect() for c > 0: slices of c samples taken from the
\* front, the last one shorter when c does not divide the length
Chunks(s, c) ==
    IF s = <<>> THEN <<>>
    ELSE IF Len(s) <= c THEN <<s>>
    ELSE <<SubSeq(s, 1, c)>> \o Chunks(SubSeq(s, c + 1, Len(s)), c)

\* the samples a recording holds
PcmSamples == {0, Unit \div 2}

PipelineIdle ==
    /\ pcm_f32 = <<>>
    /\ chunk_samples = 1
    /\ on_interim = FALSE
    /\ tpc = "returned"
    /\ tl = [i |-> 0, full_text |-> <<>>, last_timestamp |-> 0]
    /\ reply = NoReply
    /\ tres = NoTRes
    /\ calls = <<>>
    /\ texts = <<>>
    /\ interim = <<>>

PipelineInit ==
    /\ pcm_f32 \in SeqsUpTo(PcmSamples, MaxPcm)
    /\ chunk_samples \in 0..MaxChunk
    /\ on_interim \in BOOLEAN
    /\ tpc = "call"
    /\ tl = [i |-> 0, full_text |-> <<>>, last_timestamp |-> 0]
    /\ reply = NoReply
    /\ tres = NoTRes
    /\ calls = <<>>
    /\ texts = <<>>
    /\ interim = <<>>

\* lines 52-55: chunks() panics for a chunk size of zero
TranscribeChunked ==
    /\ tpc = "call"
    /\ tpc' = IF chunk_samples = 0 THEN "panicked" ELSE "loop"
    /\ tl' = [i |-> 0, full_text |-> <<>>, last_timestamp |-> 0]
    /\ UNCHANGED <<pcm_f32, chunk_samples, on_interim, reply, tres, calls,
                   texts, interim>>

\* lines 57-65, to the await: the chunk is encoded and the backend called
ChunkCall ==
    /\ tpc = "loop"
    /\ tl.i < Len(Chunks(pcm_f32, chunk_samples))
    /\ LET chunk == Chunks(pcm_f32, chunk_samples)[tl.i + 1]
           wav_data == pcm_f32_to_wav(chunk, WHISPER_SAMPLE_RATE, MONO_CHANNELS)
       IN  IF wav_data.ok
           THEN /\ calls' = Append(calls, wav_data.bytes)
                /\ tpc' = "transcribe"
                /\ tres' = tres
           ELSE /\ calls' = calls
                /\ tpc' = "returned"
                /\ tres' = TErr(wav_data.err)
    /\ UNCHANGED <<pcm_f32, chunk_samples, on_interim, tl, reply, texts,
                   interim>>

\* the error of the backend is noted and the loop goes on with an empty text
BackendReturns_GoesOn ==
    /\ tpc = "transcribe"
    /\ \/ \E r \in BackendResults :
            /\ reply' = r
            /\ texts' = Append(texts, r.text)
            /\ tres' = tres
       \/ /\ reply' = NoReply
          /\ texts' = Append(texts, <<>>)
          /\ tres' = TErr("ApiError")
    /\ tpc' = "reply"
    /\ UNCHANGED <<pcm_f32, chunk_samples, on_interim, tl, calls, interim>>

\* lines 62-65: the backend call returns, with a result or an error
BackendReturns ==
    /\ tpc = "transcribe"
    /\ \/ \E r \in BackendResults :
            /\ reply' = r
            /\ texts' = Append(texts, r.text)
            /\ tpc' = "reply"
            /\ tres' = tres
       \/ /\ tres' = TErr("ApiError")
          /\ tpc' = "returned"
          /\ UNCHANGED <<reply, texts>>
    /\ UNCHANGED <<pcm_f32, chunk_samples, on_interim, tl, calls, interim>>

\* the flag of the backend is handed on as it came
ChunkDone_KeepsFlag ==
    /\ tpc = "reply"
    /\ tl' = [i |-> tl.i + 1,
              full_text |-> (IF tl.full_text # <<>> /\ reply.text # <<>>
                             THEN Append(tl.full_text, SP)
                             ELSE tl.full_text) \o reply.text,
              last_timestamp |-> reply.timestamp]
    /\ interim' = IF on_interim THEN Append(interim, reply) ELSE interim
    /\ tpc' = "loop"
    /\ UNCHANGED <<pcm_f32, chunk_samples, on_interim, reply, tres, calls,
                   texts>>

\* a space is pushed before every chunk text
ChunkDone_AlwaysSpace ==
    /\ tpc = "reply"
    /\ LET is_last == tl.i = Len(Chunks(pcm_f32, chunk_samples)) - 1
           result == [reply EXCEPT !.is_final = is_last]
       IN  /\ tl' = [i |-> tl.i + 1,
                     full_text |-> Append(tl.full_text, SP) \o result.text,
                     last_timestamp |-> result.timestamp]
           /\ interim' = IF on_interim THEN Append(interim, result)
                         ELSE interim
    /\ tpc' = "loop"
    /\ UNCHANGED <<pcm_f32, chunk_samples, on_interim, reply, tres, calls,
                   texts>>

\* the callback is left out of the loop body
ChunkDone_NoCallback ==
    /\ tpc = "reply"
    /\ LET is_last == tl.i = Len(Chunks(pcm_f32, chunk_samples)) - 1
           result == [reply EXCEPT !.is_final = is_last]
       IN  tl' = [i |-> tl.i + 1,
                  full_text |-> (IF tl.full_text # <<>> /\ result.text # <<>>
                                 THEN Append(tl.full_text, SP)
                                 ELSE tl.full_text) \o result.text,
                  last_timestamp |-> result.timestamp]
    /\ tpc' = "loop"
    /\ UNCHANGED <<pcm_f32, chunk_samples, on_interim, reply, tres, calls,
                   texts, interim>>

\* lines 58 and 67-77: the rest of the loop body
ChunkDone ==
    /\ tpc = "reply"
    /\ LET is_last == tl.i = Len(Chunks(pcm_f32, chunk_samples)) - 1
           result == [reply EXCEPT !.is_final = is_last]
       IN  /\ tl' = [i |-> tl.i + 1,
                     full_text |-> (IF tl.full_text # <<>> /\ result.text # <<>>
                                    THEN Append(tl.full_text, SP)
                                    ELSE tl.full_text) \o result.text,
                     last_timestamp |-> result.timestamp]
           /\ interim' = IF on_interim THEN Append(interim, result)
                         ELSE interim
    /\ tpc' = "loop"
    /\ UNCHANGED <<pcm_f32, chunk_samples, on_interim, reply, tres, calls,
                   texts>>

\* lines 80-85: the loop is over
TranscribeReturns ==
    /\ tpc = "loop"
    /\ tl.i = Len(Chunks(pcm_f32, chunk_samples))
    /\ tres' = TOk(TranscriptionResult(tl.full_text, TRUE, tl.last_timestamp))
    /\ tpc' = "returned"
    /\ UNCHANGED <<pcm_f32, chunk_samples, on_interim, tl, reply, calls, texts,
                   interim>>

(***************************************************************************)
(* -----------------------  THE AI COMMAND  ------------------------------ *)
(***************************************************************************)
\* modes in the configuration load_modes reads
MaxModes == 2

VARIABLES
    ai_provider,    \* the environment variable AI_PROVIDER
    modes,          \* what load_modes answers: an error or the modes
    cmd,            \* one process_with_ai call: its arguments, where it stands
    cres            \* what process_with_ai returned

cmdVars == <<ai_provider, modes, cmd, cres>>

ModeIds == {"raw", "proofread"}

\* ModeConfig { id, ai_enabled, .. }
ModeConfigs == { [id |-> i, ai_enabled |-> a] : i \in ModeIds, a \in BOOLEAN }

\* Result<Vec<ModeConfig>, String> of load_modes
ModesLoaded(list) == [ok |-> TRUE, list |-> list]
ModesFailed == [ok |-> FALSE, list |-> <<>>]

\* the values of AI_PROVIDER: a provider name, another string, no value, or
\* a value that is not Unicode
AiProviderValues == ProviderTypes \cup {"other", "unset", "not_unicode"}

\* the model name each client is built with
ModelOf(b) ==
    CASE b = "openai" -> "gpt-4o-mini"
      [] b = "anthropic" -> "claude-haiku-4-5-20251001"
      [] b = "vertexai" -> "gemini-2.0-flash"
      [] OTHER -> "none"

\* Result<AIResponse, AppError>
CmdOk(text, model, usage) ==
    [ok |-> TRUE, text |-> text, model |-> model, usage |-> usage,
     err |-> "none", msg |-> ""]
CmdErr(kind, msg) ==
    [ok |-> FALSE, text |-> <<>>, model |-> "", usage |-> "none",
     err |-> kind, msg |-> msg]
NoCmdRes ==
    [ok |-> FALSE, text |-> <<>>, model |-> "", usage |-> "none",
     err |-> "none", msg |-> ""]

\* modes.iter().find(|m| m.id == mode_id): the position of the first mode
\* with that id, 0 when there is none
FindMode(list, id) ==
    IF \E k \in DOMAIN list : list[k].id = id
    THEN CHOOSE k \in DOMAIN list :
            /\ list[k].id = id
            /\ \A j \in 1..(k - 1) : list[j].id # id
    ELSE 0

CommandIdle ==
    /\ ai_provider = "unset"
    /\ modes = ModesFailed
    /\ cmd = [text |-> <<>>, mode_id |-> "raw", pc |-> "returned"]
    /\ cres = NoCmdRes

CommandInit ==
    /\ ai_provider \in AiProviderValues
    /\ modes \in {ModesFailed}
                 \cup { ModesLoaded(l) : l \in SeqsUpTo(ModeConfigs, MaxModes) }
    /\ cmd \in { [text |-> t, mode_id |-> i, pc |-> "call"]
                   : t \in Texts, i \in ModeIds }
    /\ cres = NoCmdRes

\* process_with_ai returns r
CmdReturn(r) ==
    /\ cres' = r
    /\ cmd' = [cmd EXCEPT !.pc = "returned"]
    /\ UNCHANGED <<ptype, spc>>

\* process_with_ai without the test of ai_enabled
ProcessWithAi_NoEnabledCheck ==
    /\ cmd.pc = "call"
    /\ IF ~modes.ok
       THEN CmdReturn(CmdErr("Config", "Failed to load modes"))
       ELSE IF FindMode(modes.list, cmd.mode_id) = 0
       THEN CmdReturn(CmdErr("Config", "Mode not found"))
       ELSE IF ai_provider \in ProviderTypes
       THEN /\ ptype' = ai_provider
            /\ spc' = "create"
            /\ cmd' = [cmd EXCEPT !.pc = "provider"]
            /\ cres' = cres
       ELSE IF ai_provider = "other"
       THEN CmdReturn(CmdErr("Ai", "Unknown AI_PROVIDER"))
       ELSE CmdReturn(CmdErr("Ai", "AI_PROVIDER not set"))
    /\ UNCHANGED <<ai_provider, modes>>
    /\ UNCHANGED <<backend, body, wire, sbuf, full_text, events, sres, env,
                   method, requests, fault, http, detail>>

\* process_with_ai, lines 41-78: the mode is looked up, a mode without AI
\* returns the text at once, otherwise AI_PROVIDER selects the provider type
\* (render_prompt only builds the prompt string)
ProcessWithAi ==
    /\ cmd.pc = "call"
    /\ IF ~modes.ok
       THEN CmdReturn(CmdErr("Config", "Failed to load modes"))
       ELSE IF FindMode(modes.list, cmd.mode_id) = 0
       THEN CmdReturn(CmdErr("Config", "Mode not found"))
       ELSE IF ~modes.list[FindMode(modes.list, cmd.mode_id)].ai_enabled
       THEN CmdReturn(CmdOk(cmd.text, "none", "none"))
       ELSE IF ai_provider \in ProviderTypes
       THEN /\ ptype' = ai_provider
            /\ spc' = "create"
            /\ cmd' = [cmd EXCEPT !.pc = "provider"]
            /\ cres' = cres
       ELSE IF ai_provider = "other"
       THEN CmdReturn(CmdErr("Ai", "Unknown AI_PROVIDER"))
       ELSE CmdReturn(CmdErr("Ai", "AI_PROVIDER not set"))
    /\ UNCHANGED <<ai_provider, modes>>
    /\ UNCHANGED <<backend, body, wire, sbuf, full_text, events, sres, env,
                   method, requests, fault, http, detail>>

\* lines 80-89: create_provider or process has answered; an error becomes
\* AppError::Ai, a response is converted by from_ai_response (usage is there
\* when the body had one)
CommandReturns ==
    /\ cmd.pc = "provider"
    /\ spc = "returned"
    /\ \E u \in {"none", "some"} :
          cres' = IF sres = "Ok"
                  THEN CmdOk(detail.text, ModelOf(backend), u)
                  ELSE CmdErr("Ai", sres)
    /\ cmd' = [cmd EXCEPT !.pc = "returned"]
    /\ UNCHANGED <<ai_provider, modes, streamVars, callVars>>

(***************************************************************************)
(* ----------------------  THE INPUT HISTORY  ---------------------------- *)
(***************************************************************************)
\* the largest max_entries a ContextManager is created with
MaxEntries == 2
\* add_entry calls between two clear calls
MaxAdds == 3

VARIABLES
    history,        \* ContextManager.history, front first
    max_entries,    \* ContextManager.max_entries
    added           \* history variable: the texts added since the last clear
                    \* (since ContextManager::new when there was none)

ctxVars == <<history, max_entries, added>>

\* the texts a caller adds
EntryTexts == {"one", "two", "three"}

ContextIdle == history = <<>> /\ max_entries = 3 /\ added = <<>>

\* ContextManager::new(max_entries): any usize is accepted
ContextInit ==
    /\ history = <<>>
    /\ max_entries \in 0..MaxEntries
    /\ added = <<>>

\* pop_front of a VecDeque: nothing happens when it is empty
PopFront(q) == IF q = <<>> THEN q ELSE Tail(q)

\* add_entry(text)
AddEntry ==
    /\ Len(added) < MaxAdds
    /\ \E text \in EntryTexts :
          /\ history' = Append(IF Len(history) >= max_entries
                               THEN PopFront(history) ELSE history, text)
          /\ added' = Append(added, text)
    /\ UNCHANGED max_entries

\* clear()
ClearHistory ==
    /\ history' = <<>>
    /\ added' = <<>>
    /\ UNCHANGED max_entries

(***************************************************************************)
(* ------------------------  THE ENTRY TABLE  ---------------------------- *)
(***************************************************************************)
\* insert_entry calls in one run
MaxRows == 3
\* the readings of the wall clock, in milliseconds
MaxClock == 2

VARIABLES
    rows,           \* the rows of the table entries: id and created_at
    last_id,        \* the largest id ever given (AUTOINCREMENT)
    listing         \* the arguments and the result of the last get_entries

dbVars == <<rows, last_id, listing>>

NoListing == [limit |-> 0, offset |-> 0, ids |-> <<>>]

\* the table after migrate
TableInit == rows = {} /\ last_id = 0 /\ listing = NoListing

\* insert_entry: the row gets the next id, and created_at defaults to
\* strftime('%Y-%m-%dT%H:%M:%fZ', 'now'), the wall clock read to the
\* millisecond, which can stand still or be set back between two inserts
InsertEntry ==
    /\ last_id < MaxRows
    /\ \E now \in 1..MaxClock :
          rows' = rows \cup { [id |-> last_id + 1, created_at |-> now] }
    /\ last_id' = last_id + 1
    /\ UNCHANGED listing

\* delete_entry(id)
DeleteEntry ==
    /\ \E id \in 1..MaxRows : rows' = { r \in rows : r.id # id }
    /\ UNCHANGED <<last_id, listing>>

\* the orders SELECT .. ORDER BY created_at DESC may give the rows in: later
\* created_at first, rows of equal created_at in any order
Orderings(table) ==
    { o \in [1..Cardinality(table) -> table] :
        /\ \A i, j \in DOMAIN o : i # j => o[i] # o[j]
        /\ \A i, j \in DOMAIN o : i < j => o[i].created_at >= o[j].created_at }

\* LIMIT l OFFSET k over the ordered rows
Window(o, l, k) ==
    IF k >= Len(o) \/ l = 0 THEN <<>>
    ELSE SubSeq(o, k + 1, IF k + l <= Len(o) THEN k + l ELSE Len(o))

\* get_entries(conn, limit, offset)
GetEntries ==
    \E l \in 0..MaxRows, k \in 0..MaxRows :
    \E o \in Orderings(rows) :
        /\ listing' = [limit |-> l, offset |-> k,
                       ids |-> [i \in DOMAIN Window(o, l, k) |->
                                   Window(o, l, k)[i].id]]
        /\ UNCHANGED <<rows, last_id>>

(***************************************************************************)
(* --------------------  THE SESSION BUFFER  ----------------------------- *)
(* The Arc<Mutex<Vec<f32>>> of one session (commands/audio.rs 118), with   *)
(* the two threads that use it followed statement by statement: the data   *)
(* callback of the stream (130-134, 143-147) and the drain of              *)
(* stop_recording (215-221).                                               *)
(***************************************************************************)
VARIABLES
    sample_format,  \* the sample format of the session's stream: "F32" | "I16"
    mutex,          \* holder of the buffer's Mutex: "free" | "callback" | "drain"
    vec,            \* the Vec<f32> behind the Mutex
    cb,             \* the data callback: where it is, its data, elements appended
    delivered,      \* the frames cpal handed to the callback, as f32, in order
    dpc,            \* stop_recording: "sleep" | "locked" | "returned"
    taken           \* `samples`, the Vec the drain took

lockVars == <<sample_format, mutex, vec, cb, delivered, dpc, taken>>

\* the frames followed through one buffer
MaxFrames == 2

NoCallback == [pc |-> "idle", data |-> <<>>, k |-> 0]

BufferIdle ==
    /\ sample_format = "F32"
    /\ mutex = "free"
    /\ vec = <<>>
    /\ cb = NoCallback
    /\ delivered = <<>>
    /\ dpc = "returned"
    /\ taken = <<>>

\* a session has started: the buffer is empty, stop_recording is yet to come
BufferInit ==
    /\ sample_format \in {"F32", "I16"}
    /\ mutex = "free"
    /\ vec = <<>>
    /\ cb = NoCallback
    /\ delivered = <<>>
    /\ dpc = "sleep"
    /\ taken = <<>>

\* cpal calls the closure with one hardware frame; a stream calls its
\* callback again only after it has returned
CallbackInvoked ==
    /\ cb.pc = "idle"
    /\ Len(delivered) < MaxFrames
    /\ \E frame \in Frames(sample_format) :
         LET data == Normalize(sample_format, frame) IN
         /\ cb' = [pc |-> "lock", data |-> data, k |-> 0]
         /\ delivered' = Append(delivered, data)
    /\ UNCHANGED <<sample_format, mutex, vec, dpc, taken>>

\* the callback goes on without the Mutex
CallbackLocks_NoMutex ==
    /\ cb.pc = "lock"
    /\ cb' = [cb EXCEPT !.pc = "extend"]
    /\ UNCHANGED <<sample_format, mutex, vec, delivered, dpc, taken>>

\* lines 131 and 144: buf.lock() returns once the Mutex is free
CallbackLocks ==
    /\ cb.pc = "lock"
    /\ mutex = "free"
    /\ mutex' = "callback"
    /\ cb' = [cb EXCEPT !.pc = "extend"]
    /\ UNCHANGED <<sample_format, vec, delivered, dpc, taken>>

\* lines 132 and 145: extend copies the frame element by element
CallbackExtends ==
    /\ cb.pc = "extend"
    /\ cb.k < Len(cb.data)
    /\ vec' = Append(vec, cb.data[cb.k + 1])
    /\ cb' = [cb EXCEPT !.k = @ + 1]
    /\ UNCHANGED <<sample_format, mutex, delivered, dpc, taken>>

\* lines 133 and 146: the guard is dropped at the end of the if-let
CallbackUnlocks ==
    /\ cb.pc = "extend"
    /\ cb.k = Len(cb.data)
    /\ mutex' = IF mutex = "callback" THEN "free" ELSE mutex
    /\ cb' = NoCallback
    /\ UNCHANGED <<sample_format, vec, delivered, dpc, taken>>

\* lines 213-219: after the sleep, inner.buffer.lock()
DrainLocks ==
    /\ dpc = "sleep"
    /\ mutex = "free"
    /\ mutex' = "drain"
    /\ dpc' = "locked"
    /\ UNCHANGED <<sample_format, vec, cb, delivered, taken>>

\* lines 220-221: mem::take moves the Vec out and leaves an empty one; the
\* guard is dropped at the end of the block
DrainTakes ==
    /\ dpc = "locked"
    /\ taken' = vec
    /\ vec' = <<>>
    /\ mutex' = "free"
    /\ dpc' = "returned"
    /\ UNCHANGED <<sample_format, cb, delivered>>

----------------------------------------------------------------------------
\* the variables of the parts that are checked one at a time, each under a
\* specification of its own
restVars == <<encVars, pipeVars, cmdVars, ctxVars, dbVars, lockVars>>

vars == <<audioVars, streamVars, callVars, chanVars, restVars>>

\* no encoder call, no transcription, no command, an empty history, an
\* empty table and a buffer nothing runs on
RestIdle ==
    /\ EncoderIdle /\ PipelineIdle /\ CommandIdle /\ ContextIdle /\ TableInit
    /\ BufferIdle

\* what the stream decoder's variables hold while the recorder is checked
StreamIdle ==
    /\ backend = "openai"
    /\ body = <<>>
    /\ wire = <<>>
    /\ sbuf = <<>>
    /\ full_text = <<>>
    /\ events = <<>>
    /\ spc = "returned"
    /\ sres = "none"

\* a client that create_provider has made, about to be called
ClientMade(m) ==
    /\ ptype = backend
    /\ env = [v \in EnvVars |-> "set"]
    /\ method = m
    /\ requests = 0
    /\ fault = "none"
    /\ http = NoResponse
    /\ detail = NoDetail

\* no channel in use
ChanIdle ==
    /\ dec = [buffer |-> <<>>, full_text |-> <<>>, pc |-> "next"]
    /\ chan = <<>>
    /\ rx = "open"
    /\ received = <<>>
    /\ cap = 1

Init ==
    /\ AudioInit /\ StreamIdle /\ ClientMade("process_stream") /\ ChanIdle
    /\ RestIdle

notAudio == <<streamVars, callVars, chanVars, restVars>>

Next ==
    \/ StartCall /\ UNCHANGED notAudio
    \/ StartFinish /\ UNCHANGED notAudio
    \/ StopCall /\ UNCHANGED notAudio
    \/ StopDrain /\ UNCHANGED notAudio
    \/ \E w \in Workers : WorkerBuild(w) /\ UNCHANGED notAudio
    \/ \E w \in Workers : WorkerPlay(w) /\ UNCHANGED notAudio
    \/ \E w \in Workers : WorkerReady(w) /\ UNCHANGED notAudio
    \/ \E w \in Workers : WorkerStop(w) /\ UNCHANGED notAudio
    \/ \E w \in Workers : Callback(w) /\ UNCHANGED notAudio

\* the recorder: commands/audio.rs
Spec == Init /\ [][Next]_vars

\* the steps of the worker thread w
WorkerRuns(w) ==
    /\ WorkerBuild(w) \/ WorkerPlay(w) \/ WorkerReady(w) \/ WorkerStop(w)
    /\ UNCHANGED notAudio

\* the sessions and the samples followed when the threads are scheduled
MaxFairSessions == 1
MaxFairSamples == 2

\* the steps of the recorder, within the bounds above
NextFair ==
    /\ Next
    /\ Spawned' <= MaxFairSessions
    /\ TotalLen(pending', MaxSessions) <= MaxFairSamples

\* the recorder with its threads scheduled: a worker thread that can take a
\* step takes one in the end (the cpal calls of lines 125-162 return), the
\* readiness wait ends by a message or after its 5 s (line 178), and the
\* 100 ms sleep of stop_recording ends (line 213)
SpecFair ==
    /\ Init /\ [][NextFair]_vars
    /\ \A w \in Workers : WF_vars(WorkerRuns(w))
    /\ WF_vars(StartFinish /\ UNCHANGED notAudio)
    /\ WF_vars(StopDrain /\ UNCHANGED notAudio)

InitStream ==
    /\ AudioInit /\ StreamInit /\ ClientMade("process_stream") /\ ChanIdle
    /\ RestIdle

NextStream ==
    \/ StreamRequest /\ UNCHANGED <<audioVars, chanVars, restVars>>
    \/ ChunkArrives /\ UNCHANGED <<audioVars, chanVars, restVars>>
    \/ ChunkFails /\ UNCHANGED <<audioVars, chanVars, restVars>>
    \/ StreamEnds /\ UNCHANGED <<audioVars, chanVars, restVars>>

\* one process_stream call of a streaming client: ai/client.rs and
\* ai/streaming.rs
SpecStream == InitStream /\ [][NextStream]_vars

\* lines of the response body of a streamed call made through create_provider
MaxCallLines == 1

InitCall ==
    /\ AudioInit
    /\ ChanIdle
    /\ RestIdle
    /\ ptype \in ProviderTypes
    /\ env \in [EnvVars -> {"unset", "set", "not_unicode"}]
    /\ method \in {"process", "process_stream"}
    /\ backend = "none"
    /\ body \in (IF ptype = "vertexai" \/ method = "process"
                 THEN {<<>>} ELSE Bodies(ptype, MaxCallLines))
    /\ wire = body
    /\ sbuf = <<>>
    /\ full_text = <<>>
    /\ events = <<>>
    /\ spc = "create"
    /\ sres = "none"
    /\ requests = 0
    /\ fault = "none"
    /\ http = NoResponse
    /\ detail = NoDetail

NextProvider ==
    \/ CreateProvider /\ UNCHANGED <<audioVars, chanVars, restVars>>
    \/ GetAccessToken /\ UNCHANGED <<audioVars, chanVars, restVars>>
    \/ ProcessRequest /\ UNCHANGED <<audioVars, chanVars, restVars>>
    \/ ProcessJson /\ UNCHANGED <<audioVars, chanVars, restVars>>
    \/ VertexStream /\ UNCHANGED <<audioVars, chanVars, restVars>>
    \/ StreamRequest /\ UNCHANGED <<audioVars, chanVars, restVars>>
    \/ ChunkArrives /\ UNCHANGED <<audioVars, chanVars, restVars>>
    \/ ChunkFails /\ UNCHANGED <<audioVars, chanVars, restVars>>
    \/ StreamEnds /\ UNCHANGED <<audioVars, chanVars, restVars>>

\* one call of process or process_stream on a client made by create_provider:
\* ai/client.rs
SpecProvider == InitCall /\ [][NextProvider]_vars

\* lines of the response body of a call whose events go through the channel
MaxChanLines == 2
\* the largest capacity the caller gives the channel
MaxCap == 2

InitChan ==
    /\ AudioInit
    /\ RestIdle
    /\ backend \in {"openai", "anthropic"}
    /\ body \in Bodies(backend, MaxChanLines)
    /\ wire = body
    /\ sbuf = <<>>
    /\ full_text = <<>>
    /\ events = <<>>
    /\ spc = "request"
    /\ sres = "none"
    /\ ClientMade("process_stream")
    /\ dec = [buffer |-> <<>>, full_text |-> <<>>, pc |-> "next"]
    /\ chan = <<>>
    /\ rx = "open"
    /\ received = <<>>
    /\ cap \in 1..MaxCap

NextChan ==
    \/ StreamRequest /\ UNCHANGED <<audioVars, chanVars, restVars>>
    \/ ChanChunk /\ UNCHANGED <<audioVars, restVars>>
    \/ ChanLine /\ UNCHANGED <<audioVars, restVars>>
    \/ ChanFails /\ UNCHANGED <<audioVars, restVars>>
    \/ ChanEnds /\ UNCHANGED <<audioVars, restVars>>
    \/ Receive /\ UNCHANGED <<audioVars, restVars>>
    \/ Disconnect /\ UNCHANGED <<audioVars, restVars>>

\* one process_stream call of a streaming client and the consumer of its
\* events: ai/streaming.rs
SpecChan == InitChan /\ [][NextChan]_vars

\* the parts checked under Spec, SpecStream, SpecProvider and SpecChan, at rest
CoreIdle ==
    /\ AudioInit /\ StreamIdle /\ ClientMade("process_stream") /\ ChanIdle
    /\ BufferIdle

InitEncoder ==
    /\ CoreIdle
    /\ EncoderInit /\ PipelineIdle /\ CommandIdle /\ ContextIdle /\ TableInit

notEnc ==
    <<audioVars, streamVars, callVars, chanVars, pipeVars, cmdVars, ctxVars,
      dbVars, lockVars>>

NextEncoder ==
    \/ EncodeF32 /\ UNCHANGED notEnc
    \/ EncodeRaw /\ UNCHANGED notEnc

\* one call of an encoder of voice/format.rs
SpecEncoder == InitEncoder /\ [][NextEncoder]_vars

InitPipeline ==
    /\ CoreIdle
    /\ EncoderIdle /\ PipelineInit /\ CommandIdle /\ ContextIdle /\ TableInit

notPipe ==
    <<audioVars, streamVars, callVars, chanVars, encVars, cmdVars, ctxVars,
      dbVars, lockVars>>

NextPipeline ==
    \/ TranscribeChunked /\ UNCHANGED notPipe
    \/ ChunkCall /\ UNCHANGED notPipe
    \/ BackendReturns /\ UNCHANGED notPipe
    \/ ChunkDone /\ UNCHANGED notPipe
    \/ TranscribeReturns /\ UNCHANGED notPipe

\* one call of transcribe_chunked: voice/pipeline.rs
SpecPipeline == InitPipeline /\ [][NextPipeline]_vars

\* process_with_ai is called: no provider type selected, no client made, and
\* any credential set or not
InitCommand ==
    /\ AudioInit
    /\ ChanIdle
    /\ EncoderIdle
    /\ PipelineIdle
    /\ ContextIdle
    /\ TableInit
    /\ BufferIdle
    /\ CommandInit
    /\ ptype = "none"
    /\ env \in [EnvVars -> {"unset", "set"}]
    /\ method = "process"
    /\ backend = "none"
    /\ body = <<>>
    /\ wire = <<>>
    /\ sbuf = <<>>
    /\ full_text = <<>>
    /\ events = <<>>
    /\ spc = "returned"
    /\ sres = "none"
    /\ requests = 0
    /\ fault = "none"
    /\ http = NoResponse
    /\ detail = NoDetail

notCmd ==
    <<audioVars, chanVars, encVars, pipeVars, ctxVars, dbVars, lockVars>>

NextCommand ==
    \/ ProcessWithAi /\ UNCHANGED notCmd
    \/ CreateProvider /\ UNCHANGED <<audioVars, chanVars, restVars>>
    \/ GetAccessToken /\ UNCHANGED <<audioVars, chanVars, restVars>>
    \/ ProcessRequest /\ UNCHANGED <<audioVars, chanVars, restVars>>
    \/ ProcessJson /\ UNCHANGED <<audioVars, chanVars, restVars>>
    \/ CommandReturns /\ UNCHANGED notCmd

\* one call of the command process_with_ai: commands/ai.rs
SpecCommand == InitCommand /\ [][NextCommand]_vars

InitContext ==
    /\ CoreIdle
    /\ EncoderIdle /\ PipelineIdle /\ CommandIdle /\ ContextInit /\ TableInit

notCtx ==
    <<audioVars, streamVars, callVars, chanVars, encVars, pipeVars, cmdVars,
      dbVars, lockVars>>

NextContext ==
    \/ AddEntry /\ UNCHANGED notCtx
    \/ ClearHistory /\ UNCHANGED notCtx

\* a ContextManager and the calls made on it: ai/context.rs
SpecContext == InitContext /\ [][NextContext]_vars

InitTable ==
    /\ CoreIdle
    /\ EncoderIdle /\ PipelineIdle /\ CommandIdle /\ ContextIdle /\ TableInit

notDb ==
    <<audioVars, streamVars, callVars, chanVars, encVars, pipeVars, cmdVars,
      ctxVars, lockVars>>

NextTable ==
    \/ InsertEntry /\ UNCHANGED notDb
    \/ DeleteEntry /\ UNCHANGED notDb
    \/ GetEntries /\ UNCHANGED notDb

\* the table entries and the calls made on it: db/repository.rs
SpecTable == InitTable /\ [][NextTable]_vars

InitBuffer ==
    /\ AudioInit /\ StreamIdle /\ ClientMade("process_stream") /\ ChanIdle
    /\ EncoderIdle /\ PipelineIdle /\ CommandIdle /\ ContextIdle /\ TableInit
    /\ BufferInit

notLock ==
    <<audioVars, streamVars, callVars, chanVars, encVars, pipeVars, cmdVars,
      ctxVars, dbVars>>

NextBuffer ==
    \/ CallbackInvoked /\ UNCHANGED notLock
    \/ CallbackLocks /\ UNCHANGED notLock
    \/ CallbackExtends /\ UNCHANGED notLock
    \/ CallbackUnlocks /\ UNCHANGED notLock
    \/ DrainLocks /\ UNCHANGED notLock
    \/ DrainTakes /\ UNCHANGED notLock

\* the buffer of one session between its callback and its drain:
\* commands/audio.rs
SpecBuffer == InitBuffer /\ [][NextBuffer]_vars

(***************************************************************************)
(* --------------------------  THE CLAIMS  ------------------------------- *)
(***************************************************************************)
\* a command is invoked in this step
Invoked(op) == call'.n # call.n /\ call'.op = op

\* the capture workers that hold an open input stream
OpenStreams == {w \in Workers : workers[w].stream \in {"built", "playing"}}

\* C1: start_recording invoked while a session is recording returns the
\* state error 'Already recording' at once and changes nothing: the recorder
\* stays Recording with the same buffer, stop sender, rate and channels, the
\* running worker and its channels are untouched, and no worker is spawned.
C1_StartWhileRecordingRejected ==
    [][ (is_recording /\ Invoked("start")) =>
          /\ ret' = Err(call'.n, "start", "Already recording")
          /\ ctl' = "none"
          /\ is_recording'
          /\ UNCHANGED <<buffer, stop_tx, sample_rate, channels, workers, bufs>>
      ]_vars

C1_Witness ==
    /\ is_recording
    /\ ret.op = "start" /\ ret.err = "Already recording"
    /\ workers[stop_tx].pc = "wait_stop"
    /\ bufs[buffer] # <<>>

\* C2: stop_recording invoked while the recorder is Idle returns the state
\* error 'Not recording' at once, with no audio; no stop signal is sent (the
\* workers and their channels are untouched), the recorder stays Idle and
\* every buffer keeps its contents.
C2_StopWhileIdleRejected ==
    [][ (~is_recording /\ Invoked("stop")) =>
          /\ ret' = Err(call'.n, "stop", "Not recording")
          /\ ret'.audio = <<>>
          /\ ctl' = "none"
          /\ ~is_recording'
          /\ UNCHANGED <<buffer, stop_tx, sample_rate, channels, workers, bufs>>
      ]_vars

\* a stop after a stop, with samples a late callback left in the buffer
C2_Witness ==
    /\ ~is_recording
    /\ ret.op = "stop" /\ ret.err = "Not recording"
    /\ Spawned >= 1
    /\ bufs[buffer] # <<>>

\* C3: at no time do two capture workers hold an open input stream.
C3_AtMostOneOpenStream == Cardinality(OpenStreams) <= 1

\* C4: the recorder is Idle (not recording, no stop sender) or Recording
\* (recording, a stop sender stored) and nothing else; it starts Idle; it
\* turns Recording only in the step in which a start_recording returns
\* success, and Idle again only in a step of a stop_recording invocation.
C4_TwoStates ==
    /\ ~is_recording /\ stop_tx = 0
    /\ [](is_recording \in BOOLEAN /\ (is_recording <=> stop_tx # 0))
    /\ [][ /\ (~is_recording /\ is_recording') =>
                 (ctl = "start" /\ call.op = "start"
                    /\ ret' = OkStart(call.n) /\ ctl' = "none")
           /\ (is_recording /\ ~is_recording') => Invoked("stop")
           /\ (is_recording' = is_recording) => (stop_tx' = stop_tx)
       ]_vars

\* the recorder went Idle -> Recording -> Idle -> Recording
C4_Witness ==
    /\ is_recording
    /\ stop_tx = 2
    /\ workers[1].pc = "exited"

\* C5: a successful stop_recording returns, two little-endian bytes per
\* sample and in delivery order, exactly the samples the session's worker
\* appended since the session's start that no stop has returned before, and
\* leaves the session buffer empty.
C5_StopDrainsOnce ==
    [][ (ctl = "stop" /\ ctl' = "none") =>
          LET samples == pending[call.w] IN
          /\ ret'.op = "stop" /\ ret'.ok
          /\ Len(ret'.audio) = 2 * Len(samples)
          /\ \A i \in 1..Len(samples) :
                ret'.audio[2 * i - 1] + 256 * ret'.audio[2 * i]
                   = Quantize(samples[i]) % 65536
          /\ bufs'[buffer] = <<>>
          /\ bufs'[workers[call.w].buf] = <<>>
      ]_vars

\* a stop returned two samples: 4 bytes
C5_Witness ==
    /\ ret.op = "stop" /\ ret.ok
    /\ Len(ret.audio) = 4
    /\ ret.audio[1] # ret.audio[2]

\* C6: whenever the recorder is Recording, and whenever start_recording has
\* returned success, the session's worker has built and started its stream
\* and has sent its readiness message, which the controller has received.
C6_RecordingOnlyAfterReady ==
    (is_recording \/ (ret.op = "start" /\ ret.ok)) =>
        /\ stop_tx \in Workers
        /\ workers[stop_tx].stream = "playing"
        /\ workers[stop_tx].pc = "wait_stop"
        /\ workers[stop_tx].readyRx = "dropped"

C6_Witness ==
    /\ is_recording
    /\ ret.op = "start" /\ ret.ok
    /\ ctl = "none"

\* C7: while start_recording waits and no readiness message has come, the
\* call can return (the timeout arm is enabled: it never blocks for good);
\* when it returns with no message received it returns the error 'Recording
\* thread timed out', and the recorder is Idle after it.
C7_ReadinessTimeout ==
    /\ []((ctl = "start" /\ workers[call.w].ready = "empty") => ENABLED StartFinish)
    /\ [][ (ctl = "start" /\ ctl' = "none" /\ workers[call.w].ready = "empty") =>
             /\ ret' = Err(call.n, "start", "Recording thread timed out")
             /\ ~is_recording' /\ stop_tx' = 0
       ]_vars

\* the call timed out while its worker was still starting the stream
C7_Witness ==
    /\ ret.op = "start" /\ ret.err = "Recording thread timed out"
    /\ ~is_recording
    /\ \E w \in Workers : workers[w].pc \in {"build", "play", "send_ready"}

----------------------------------------------------------------------------
\* what the decoder gives when the whole body arrives as one chunk
Whole == FeedChunk(backend, Decoder(<<>>, <<>>, <<>>, FALSE), body)

Decoded == spc = "returned" /\ sres = "Ok" /\ backend \in {"openai", "anthropic"}

\* C8: however the body was cut into chunks, a decoder that returned Ok has
\* emitted the events and built the text it gives for the body in one chunk.
C8_ChunkingIndependent ==
    Decoded => (events = Whole.events /\ full_text = Whole.full_text)

\* C9: a terminal event is the last event emitted: at most one is emitted,
\* nothing follows it, and once it is emitted the decoder has returned Ok.
C9_TerminalIsLast ==
    \A i \in 1..Len(events) :
        events[i].done => (i = Len(events) /\ spc = "returned" /\ sres = "Ok")

\* the terminator came in a chunk that also held a later, complete content
\* line, which stays in the buffer undecoded
C9_Witness ==
    /\ backend \in {"openai", "anthropic"}
    /\ events # <<>> /\ events[Len(events)].done
    /\ FindNewline(sbuf) # 0
    /\ \E i \in 1..Len(sbuf) : sbuf[i] \in {OpenA, OpenB}

\* C10: a process_stream call that returned Ok has emitted a terminal event
\* as its last event.
C10_OkEndsInTerminal ==
    (spc = "returned" /\ sres = "Ok") =>
        (events # <<>> /\ events[Len(events)].done)

----------------------------------------------------------------------------
\* The frames of a body, read off the bytes the server sent.
OpenOf(g) == IF g = "openai" THEN OpenA ELSE OpenB
CloseOf(g) == IF g = "openai" THEN CloseA ELSE CloseB
TerminatorOf(g) == IF g = "openai" THEN DoneWord ELSE StopB

RECURSIVE WireLines(_, _, _)
\* the newline-terminated lines of bytes[i..], the line begun at `from`
WireLines(bytes, from, i) ==
    IF i > Len(bytes) THEN <<>>
    ELSE IF bytes[i] = NL
    THEN <<SubSeq(bytes, from, i - 1)>> \o WireLines(bytes, i + 1, i + 1)
    ELSE WireLines(bytes, from, i + 1)

\* the line is `data: `, the token tok, and white space
IsBareFrame(l, tok) ==
    /\ Len(l) >= 3
    /\ l[1] = DataColon /\ l[2] = SP /\ l[3] = tok
    /\ \A i \in 4..Len(l) : l[i] \in {SP, CR}

\* the line is `data: `, a content object of grammar g, and white space
IsContentFrame(g, l) ==
    /\ Len(l) >= 4
    /\ l[1] = DataColon /\ l[2] = SP /\ l[3] = OpenOf(g)
    /\ \E j \in 4..Len(l) :
          /\ l[j] = CloseOf(g)
          /\ \A i \in 4..(j - 1) : l[i] < 1000 /\ l[i] >= 32
          /\ \A i \in (j + 1)..Len(l) : l[i] \in {SP, CR}

\* the bytes of the content string of a content frame
FrameText(g, l) ==
    LET j == CHOOSE j \in 4..Len(l) : l[j] = CloseOf(g) IN SubSeq(l, 4, j - 1)

RECURSIVE ContentFrames(_, _)
\* the content strings of the content frames that come before the first
\* terminator frame, in wire order
ContentFrames(g, lines) ==
    IF lines = <<>> \/ IsBareFrame(Head(lines), TerminatorOf(g)) THEN <<>>
    ELSE IF IsContentFrame(g, Head(lines))
    THEN <<FrameText(g, Head(lines))>> \o ContentFrames(g, Tail(lines))
    ELSE ContentFrames(g, Tail(lines))

FramesOfBody == ContentFrames(backend, WireLines(body, 1, 1))

RECURSIVE Deltas(_)
\* the non-terminal events among evs, in order
Deltas(evs) ==
    IF evs = <<>> THEN <<>>
    ELSE IF Head(evs).done THEN Deltas(Tail(evs))
    ELSE <<Head(evs)>> \o Deltas(Tail(evs))

RECURSIVE Concat(_)
\* the contents of evs, concatenated in order
Concat(evs) == IF evs = <<>> THEN <<>> ELSE Head(evs).content \o Concat(Tail(evs))

IsAscii(text) == \A i \in DOMAIN text : text[i] < 128

\* C11: the non-terminal events are, in wire order, one per content frame of
\* the body before its terminator: never more events than frames, the i-th
\* event for the i-th frame (its content the frame's string when that is
\* ASCII), and as many events as frames once the decoder has returned Ok;
\* the text built is the concatenation of the non-terminal events' contents.
C11_OneEventPerFrame ==
    (backend \in {"openai", "anthropic"}) =>
        LET ds == Deltas(events)
            fs == FramesOfBody
        IN  /\ Len(ds) <= Len(fs)
            /\ \A i \in 1..Len(ds) : IsAscii(fs[i]) => ds[i].content = fs[i]
            /\ Decoded => Len(ds) = Len(fs)
            /\ full_text = Concat(ds)

\* "a", then a second content, then the terminator
C11_Witness ==
    /\ Decoded
    /\ Len(events) = 3
    /\ events[1] = Chunk(<<97>>, FALSE)
    /\ ~events[2].done /\ events[2].content # <<97>>
    /\ events[3].done
    /\ Len(full_text) = 2

----------------------------------------------------------------------------
\* `data: {`: a payload that is JSON for neither grammar
IsBadJsonLine(l) == IsBareFrame(l, 123)

RECURSIVE JoinLines(_)
JoinLines(lines) ==
    IF lines = <<>> THEN <<>> ELSE Head(lines) \o <<NL>> \o JoinLines(Tail(lines))

RECURSIVE DropBad(_)
DropBad(lines) ==
    IF lines = <<>> THEN <<>>
    ELSE IF IsBadJsonLine(Head(lines)) THEN DropBad(Tail(lines))
    ELSE <<Head(lines)>> \o DropBad(Tail(lines))

\* the bytes after the last newline
Unterminated(bytes) ==
    SubSeq(bytes, Len(JoinLines(WireLines(bytes, 1, 1))) + 1, Len(bytes))

\* the body with its bad-JSON lines taken out
WithoutBadLines == JoinLines(DropBad(WireLines(body, 1, 1))) \o Unterminated(body)

HasBadLine == \E i \in DOMAIN WireLines(body, 1, 1) : IsBadJsonLine(WireLines(body, 1, 1)[i])

\* what the decoder gives for the body without its bad-JSON lines
Clean == FeedChunk(backend, Decoder(<<>>, <<>>, <<>>, FALSE), WithoutBadLines)

----------------------------------------------------------------------------
\* the chunk this step delivers
Delivered == SubSeq(wire, 1, Len(wire) - Len(wire'))

\* this step delivers exactly one whole line to a Grammar-B decoder whose
\* buffer is empty
OneLineB(l) ==
    /\ backend = "anthropic"
    /\ spc = "streaming"
    /\ sbuf = <<>>
    /\ wire' # wire
    /\ Delivered = l \o <<NL>>

\* C13: in Grammar B, a chunk that is one whole line, given to a decoder with
\* an empty buffer, has this effect: a content_block_delta with delta.text
\* appends the text to full_text and emits it as a non-terminal event, and
\* decoding goes on; message_stop emits the terminal event, leaves full_text
\* and returns Ok; a ping changes neither the events nor full_text, and
\* decoding goes on.
C13_GrammarB ==
    [][ /\ \A t \in {<<97>>, <<LeadC3, ContA9>>} :
            (OneLineB(ContentLine(OpenB, t, CloseB)) \/
             OneLineB(ContentLine(OpenB, t, CloseB) \o <<CR>>)) =>
                /\ full_text' = full_text \o Utf8Lossy(t)
                /\ events' = Append(events, Chunk(Utf8Lossy(t), FALSE))
                /\ spc' = "streaming"
        /\ OneLineB(DataPrefix \o <<StopB>>) =>
                /\ events' = Append(events, Chunk(<<>>, TRUE))
                /\ full_text' = full_text
                /\ spc' = "returned" /\ sres' = "Ok"
        /\ OneLineB(DataPrefix \o <<PingB>>) =>
                /\ events' = events
                /\ full_text' = full_text
                /\ spc' = "streaming"
      ]_vars

\* a ping, a content delta and message_stop were decoded
C13_Witness ==
    /\ backend = "anthropic"
    /\ Decoded
    /\ \E i \in DOMAIN body : body[i] = PingB
    /\ events = <<Chunk(<<97>>, FALSE), Chunk(<<>>, TRUE)>>
    /\ full_text = <<97>>

----------------------------------------------------------------------------
\* C16: the step in which reading a chunk fails returns StreamError and
\* leaves the events emitted so far and the text as they are; StreamError
\* comes from a failed read only; after it the call has returned and no
\* event is emitted any more.
C16_StreamErrorStops ==
    [][ /\ (sres # "StreamError" /\ sres' = "StreamError") =>
              /\ spc = "streaming" /\ spc' = "returned"
              /\ fault' # "none"
              /\ events' = events
              /\ full_text' = full_text
        /\ (sres = "StreamError") =>
              (spc = "returned" /\ UNCHANGED <<events, sres, spc>>)
      ]_vars

\* the read failed after a content event, with more of the body to come
C16_Witness ==
    /\ sres = "StreamError"
    /\ spc = "returned"
    /\ events = <<Chunk(<<97>>, FALSE)>>
    /\ wire # <<>>

----------------------------------------------------------------------------
\* a method of a client has been called and has returned
CallReturned == spc = "returned" /\ backend # "none"

\* C17: process_stream of the Vertex AI client emits nothing before it
\* returns; returned Ok, it has made one request and emitted exactly one
\* event, terminal, whose content is the text of the response; returned an
\* error, it has emitted nothing, and the error is one of process.
C17_VertexOneTerminalEvent ==
    (backend = "vertexai" /\ method = "process_stream") =>
        /\ (spc # "returned") => events = <<>>
        /\ (spc = "returned" /\ sres = "Ok") =>
              (events = <<Chunk(http.text, TRUE)>> /\ requests = 1)
        /\ (spc = "returned" /\ sres # "Ok") =>
              /\ events = <<>>
              /\ sres \in {"ApiKeyMissing", "RequestFailed", "Timeout", "ParseError"}

C17_Witness ==
    /\ backend = "vertexai" /\ method = "process_stream"
    /\ spc = "returned" /\ sres = "Ok"
    /\ events = <<Chunk(<<97>>, TRUE)>>

\* a response whose status is not 2xx has come
NonSuccess == http.status # 0 /\ ~IsSuccess(http.status)

\* such a response makes the call fail with RequestFailed, which carries the
\* status and the body as far as it could be read
NonSuccessFails ==
    NonSuccess =>
        /\ spc = "returned"
        /\ sres = "RequestFailed"
        /\ detail.status = http.status
        /\ detail.text = (IF fault = "none" THEN http.text ELSE <<>>)

\* C18 as stated: a response that is not 2xx gives RequestFailed with its
\* status and body, and every call that returned has made exactly one
\* request.
C18_OneRequestWhateverOutcome ==
    /\ NonSuccessFails
    /\ CallReturned => requests = 1

\* the call ended in get_access_token, before any request
TokenFailed == backend = "vertexai" /\ CallReturned /\ http.status = 0 /\ fault = "none"

\* C18, amended: a response that is not 2xx gives RequestFailed with its
\* status and body (an empty body when it could not be read); no call makes
\* more than one request, and a call that returned has made exactly one
\* unless the Vertex AI client failed to get its access token, when it has
\* made none.
C18_AtMostOneRequest ==
    /\ NonSuccessFails
    /\ requests <= 1
    /\ CallReturned => (requests = (IF TokenFailed THEN 0 ELSE 1))

\* a 500 with a body, for each method
C18_Witness ==
    /\ CallReturned
    /\ method = "process_stream" /\ backend = "anthropic"
    /\ sres = "RequestFailed"
    /\ detail = Detail(500, <<97>>, "HTTP")
    /\ requests = 1

\* C19: a call that met a timeout returns Timeout, and a call that returns
\* Timeout met one.
C19_TimeoutGivesTimeout ==
    CallReturned => (fault = "timeout" <=> sres = "Timeout")

\* C20: create_provider gives the client of the requested type when the
\* type's credential variable is set, whatever the other variables hold;
\* when it is not set (or not Unicode) it fails with ApiKeyMissing naming
\* that variable, no client is made and no request is sent.
C20_CreateProvider ==
    (spc # "create") =>
        IF env[CredentialOf(ptype)] = "set"
        THEN backend = ptype
        ELSE /\ backend = "none"
             /\ spc = "returned"
             /\ sres = "ApiKeyMissing"
             /\ detail.name = CredentialOf(ptype)
             /\ requests = 0

\* OpenAI asked for without its key, the other two credentials set
C20_Witness ==
    /\ ptype = "openai"
    /\ env = [v \in EnvVars |-> IF v = "OPENAI_API_KEY" THEN "unset" ELSE "set"]
    /\ spc = "returned"
    /\ sres = "ApiKeyMissing"
    /\ detail.name = "OPENAI_API_KEY"
    /\ backend = "none"

----------------------------------------------------------------------------
\* the send of an event can complete now (the decoder waits nowhere else for
\* the channel)
SendCompletes == ENABLED Send(Chunk(<<>>, FALSE))

\* the line the decoder handles next carries an event
NextLineSends ==
    /\ spc = "streaming"
    /\ dec.pc = "lines"
    /\ HandleLine(backend, Decoder(<<>>, <<>>, <<>>, FALSE),
                  Trim(SubSeq(dec.buffer, 1, FindNewline(dec.buffer) - 1))).events # <<>>

\* C14: with the receiver gone a send completes at once and the decoder goes
\* on to the next line without an error; its failed sends leave nothing in
\* the channel and give the consumer nothing more; at
\* every chunk boundary and at its return the decoder holds the buffer and
\* the text of the decoder whose sends all succeed, and it returns where that
\* one returns: a return without a transport failure is Ok.
C14_DisconnectIgnored ==
    /\ [](rx = "closed" => SendCompletes)
    /\ [][(rx = "closed" /\ NextLineSends /\ dec' # dec) =>
             (chan' = <<>> /\ spc' \in {"streaming", "returned"}
                /\ sres' \in {"none", "Ok"})]_vars
    /\ [](rx = "closed" => chan = <<>>)
    /\ [][rx = "closed" => received' = received]_vars
    /\ []((dec.pc \in {"next", "returned"}) =>
             (dec.buffer = sbuf /\ dec.full_text = full_text))
    /\ []((spc = "returned" /\ sres = "Ok") =>
             (dec.full_text = full_text /\ dec.buffer = sbuf))
    /\ [][(spc = "streaming" /\ spc' = "returned" /\ fault' = fault) =>
             sres' = "Ok"]_vars

\* the consumer took one event and left; the decoder went on to the end
C14_Witness ==
    /\ rx = "closed"
    /\ Len(received) = 1
    /\ spc = "returned" /\ sres = "Ok"
    /\ Len(Deltas(events)) = 2
    /\ dec.full_text = <<97, 97>>
    /\ wire = <<>>

\* C15: the channel never holds more than its capacity, and while the
\* receiver is there the events received and those in the channel are, in
\* order, the events the decoder produced so far, all of them at every chunk
\* boundary and at the return: none is lost and none overtakes another,
\* whatever the capacity and however slow the consumer.
C15_Backpressure ==
    /\ Len(chan) <= cap
    /\ (rx = "open") =>
          LET got == received \o chan IN
          /\ Len(got) <= Len(events)
          /\ got = SubSeq(events, 1, Len(got))
          /\ (spc \in {"streaming", "returned"} /\ dec.pc \in {"next", "returned"}) =>
                got = events

\* the channel is full and the decoder waits in the send of its next event
C15_Witness ==
    /\ rx = "open"
    /\ NextLineSends
    /\ Len(chan) = cap
    /\ ~SendCompletes

----------------------------------------------------------------------------
\* the least number of chunks of c samples that cover n samples
Ceil(n, c) == IF n % c = 0 THEN n \div c ELSE (n \div c) + 1

\* the smaller of two numbers
Min(a, b) == IF a <= b THEN a ELSE b

\* the samples of chunk k of the buffer, counted from 1
ChunkOfBuffer(k) ==
    SubSeq(pcm_f32, (k - 1) * chunk_samples + 1,
           Min(k * chunk_samples, Len(pcm_f32)))

\* backend calls started and not yet returned
InFlight ==
    Len(calls) - Len(texts) - (IF tres.err = "ApiError" THEN 1 ELSE 0)

\* C21: transcribe_chunked over n samples with chunk size c > 0 never starts
\* more than ceil(n/c) backend calls and has started exactly ceil(n/c) when
\* it returns Ok; call k carries the WAV encoding of chunk k of the buffer;
\* at most one call is in flight at any time; a buffer of exactly 2c samples
\* gives exactly 2 calls.
C21_OneSequentialCallPerChunk ==
    chunk_samples > 0 =>
        /\ Len(calls) <= Ceil(Len(pcm_f32), chunk_samples)
        /\ tres.ok => Len(calls) = Ceil(Len(pcm_f32), chunk_samples)
        /\ \A k \in DOMAIN calls :
              calls[k] = pcm_f32_to_wav(ChunkOfBuffer(k), WHISPER_SAMPLE_RATE,
                                        MONO_CHANNELS).bytes
        /\ InFlight \in {0, 1}
        /\ (tres.ok /\ Len(pcm_f32) = 2 * chunk_samples) => Len(calls) = 2

\* a buffer of 2c samples has been transcribed with two calls
C21_Witness ==
    /\ tres.ok
    /\ chunk_samples > 0
    /\ Len(pcm_f32) = 2 * chunk_samples
    /\ Len(calls) = 2
    /\ calls[1] # calls[2]

\* C22: every result handed to the callback of transcribe_chunked has
\* is_final = TRUE when it is the result of the last chunk and FALSE when it
\* is the result of an earlier chunk, whatever flag the backend returned.
C22_OnlyLastChunkFinal ==
    chunk_samples > 0 =>
        \A k \in DOMAIN interim :
            interim[k].is_final = (k = Ceil(Len(pcm_f32), chunk_samples))

\* the backend flagged the first of two chunks final, the callback got it
\* flagged not final
C22_Witness ==
    /\ on_interim
    /\ tpc = "loop"
    /\ Ceil(Len(pcm_f32), chunk_samples) = 2
    /\ Len(interim) = 1
    /\ reply.is_final
    /\ ~interim[1].is_final

\* the texts of a sequence that are not empty, in order
NonEmptyOf(ts) == SelectSeq(ts, LAMBDA t : t # <<>>)

RECURSIVE JoinSpace(_)
\* the texts of a sequence with one space between neighbours
JoinSpace(ts) ==
    IF ts = <<>> THEN <<>>
    ELSE IF Len(ts) = 1 THEN ts[1]
    ELSE ts[1] \o <<SP>> \o JoinSpace(Tail(ts))

\* no space at either end and no two spaces in a row
SingleSpaced(t) ==
    /\ t # <<>> => t[1] # SP /\ t[Len(t)] # SP
    /\ \A k \in 1..(Len(t) - 1) : ~(t[k] = SP /\ t[k + 1] = SP)

\* C23: the text transcribe_chunked returns is the non-empty chunk texts in
\* the order of their calls with exactly one space between neighbours; an
\* empty chunk text adds nothing, so (the chunk texts holding no space) the
\* result has no space at either end and no two spaces in a row.
C23_TextsJoinedBySingleSpace ==
    tres.ok =>
        /\ Len(texts) = Len(calls)
        /\ tres.result.text = JoinSpace(NonEmptyOf(texts))
        /\ SingleSpaced(tres.result.text)

\* three chunks, the middle one empty, joined with one space
C23_Witness ==
    /\ tres.ok
    /\ texts = << <<97>>, <<>>, <<98>> >>
    /\ tres.result.text = <<97, SP, 98>>

----------------------------------------------------------------------------
\* an encoder call has returned
Encoded(fn) == enc.fn = fn /\ wav # NoWav

\* C24: pcm_bytes_to_wav fails with FormatError for every byte buffer of odd
\* length, whatever the sample rate and the channel count, and returns no WAV
\* bytes then.
C24_OddLengthRejected ==
    (Encoded("pcm_bytes_to_wav") /\ Len(enc.input) % 2 = 1) =>
        /\ ~wav.ok
        /\ wav.err = "FormatError"
        /\ wav.bytes = <<>>

\* a buffer of three bytes was rejected
C24_Witness ==
    /\ Encoded("pcm_bytes_to_wav")
    /\ Len(enc.input) = 3
    /\ enc.channels = 2
    /\ wav.err = "FormatError"

\* C25: whatever the sample rate, the channel count and the samples (none
\* included), the bytes an encoder returns hold "RIFF" at offsets 0..4 and
\* "WAVE" at offsets 8..12.
C25_RiffWaveHeader ==
    (wav.ok /\ enc.sample_rate > 0 /\ enc.channels > 0) =>
        /\ Len(wav.bytes) >= 12
        /\ SubSeq(wav.bytes, 1, 4) = <<82, 73, 70, 70>>
        /\ SubSeq(wav.bytes, 9, 12) = <<87, 65, 86, 69>>

\* no samples at all were encoded into a container with the two tags
C25_Witness ==
    /\ Encoded("pcm_f32_to_wav")
    /\ enc.input = <<>>
    /\ wav.ok
    /\ SubSeq(wav.bytes, 1, 4) = <<82, 73, 70, 70>>

\* the 16-bit samples in the data of a WAV of the 44-byte header, decoded low
\* byte first
DataSamples(bytes) ==
    [k \in 1..((Len(bytes) - 44) \div 2) |->
        LET u == bytes[44 + 2 * k - 1] + 256 * bytes[44 + 2 * k]
        IN  IF u >= 32768 THEN u - 65536 ELSE u]

\* the value 16-bit quantization must give for a float sample: the sample
\* brought into [-1, 1], times 32767, cut toward zero; 0 for NaN
Expected16(s) ==
    IF s = NaN THEN 0
    ELSE IF s >= Unit THEN 32767
    ELSE IF s <= -Unit THEN -32767
    ELSE IF s >= 0 THEN (s * 32767) \div Unit
    ELSE -(((-s) * 32767) \div Unit)

\* C26: pcm_f32_to_wav never fails because of the value of a sample: it fails
\* only when the samples are not a whole number of frames, and every sample it
\* writes is the clamped sample quantized, a value in [-32767, 32767]; the
\* samples -2.0, 2.0, 0.5, -0.5 encode successfully.
C26_OutOfRangeClamped ==
    Encoded("pcm_f32_to_wav") =>
        /\ wav.ok <=> Len(enc.input) % enc.channels = 0
        /\ wav.ok =>
             /\ Len(DataSamples(wav.bytes)) = Len(enc.input)
             /\ \A k \in DOMAIN enc.input :
                   /\ DataSamples(wav.bytes)[k] >= -32767
                   /\ DataSamples(wav.bytes)[k] <= 32767
                   /\ DataSamples(wav.bytes)[k] = Expected16(enc.input[k])
        /\ (enc.input = <<-2 * Unit, 2 * Unit, Unit \div 2, -(Unit \div 2)>>
            /\ enc.channels = 1) => wav.ok

\* -2.0, 2.0, 0.5, -0.5 were encoded as -32767, 32767, 16383, -16383
C26_Witness ==
    /\ Encoded("pcm_f32_to_wav")
    /\ enc.input = <<-2 * Unit, 2 * Unit, Unit \div 2, -(Unit \div 2)>>
    /\ wav.ok
    /\ DataSamples(wav.bytes) = <<-32767, 32767, 16383, -16383>>

\* the little-endian 16-bit values of a byte buffer of even length
OriginalSamples(raw) ==
    [k \in 1..(Len(raw) \div 2) |->
        LET u == raw[2 * k - 1] + 256 * raw[2 * k]
        IN  IF u >= 32768 THEN u - 65536 ELSE u]

\* C27: when pcm_bytes_to_wav returns a WAV for a byte buffer of even length,
\* the samples decoded from its data are the little-endian 16-bit values of
\* the buffer, as many and in the same order, each within 1 of the original
\* (in fact equal), and the data is the buffer byte for byte.
C27_RawRoundTrip ==
    (Encoded("pcm_bytes_to_wav") /\ wav.ok) =>
        /\ Len(enc.input) % 2 = 0
        /\ Len(DataSamples(wav.bytes)) = Len(enc.input) \div 2
        /\ \A k \in DOMAIN DataSamples(wav.bytes) :
              /\ DataSamples(wav.bytes)[k] - OriginalSamples(enc.input)[k] <= 1
              /\ OriginalSamples(enc.input)[k] - DataSamples(wav.bytes)[k] <= 1
              /\ DataSamples(wav.bytes)[k] = OriginalSamples(enc.input)[k]
        /\ SubSeq(wav.bytes, 45, Len(wav.bytes)) = enc.input

\* the bytes FF 80 01 00 came back as the samples -32513 and 1
C27_Witness ==
    /\ Encoded("pcm_bytes_to_wav")
    /\ enc.input = <<255, 128, 1, 0>>
    /\ wav.ok
    /\ DataSamples(wav.bytes) = <<-32513, 1>>

----------------------------------------------------------------------------
\* the mode process_with_ai finds has ai_enabled = false
ModeWithoutAi ==
    /\ modes.ok
    /\ \E k \in DOMAIN modes.list :
          /\ modes.list[k].id = cmd.mode_id
          /\ \A j \in 1..(k - 1) : modes.list[j].id # cmd.mode_id
          /\ ~modes.list[k].ai_enabled

\* C28: process_with_ai on a mode whose ai_enabled is false returns the
\* input text unchanged with model "none" and no usage; no provider type is
\* selected, no client is made and no request is sent at any time of the
\* call, whatever AI_PROVIDER and the credentials are.
C28_DisabledModeBypassesProvider ==
    ModeWithoutAi =>
        /\ ptype = "none"
        /\ backend = "none"
        /\ requests = 0
        /\ sres = "none"
        /\ spc = "returned"
        /\ cmd.pc \in {"call", "returned"}
        /\ cmd.pc = "returned" => cres = CmdOk(cmd.text, "none", "none")

\* a mode without AI returned the text although a provider was configured
C28_Witness ==
    /\ ModeWithoutAi
    /\ cmd.pc = "returned"
    /\ cmd.text = <<97>>
    /\ cres.ok /\ cres.text = <<97>> /\ cres.model = "none"
    /\ ai_provider = "openai"
    /\ env["OPENAI_API_KEY"] = "set"

----------------------------------------------------------------------------
\* the last n elements of a sequence, all of it when it is shorter
LastN(q, n) == IF Len(q) <= n THEN q ELSE SubSeq(q, Len(q) - n + 1, Len(q))

\* C29: after any sequence of add_entry and clear calls on a ContextManager
\* created with max_entries = N, the history holds at most N entries, and
\* they are the entries added last (since the last clear), in the order they
\* were added.
C29_AtMostNMostRecent ==
    /\ Len(history) <= max_entries
    /\ history = LastN(added, max_entries)

\* the ids of a set of rows from the largest to the smallest
RECURSIVE IdsDescending(_)
IdsDescending(table) ==
    IF table = {} THEN <<>>
    ELSE LET top == CHOOSE r \in table : \A q \in table : q.id <= r.id
         IN  <<top.id>> \o IdsDescending(table \ {top})

\* C30: get_entries returns the stored entries newest first, an entry with a
\* larger id before every entry with a smaller id, and limit and offset
\* select the window of that order that skips the `offset` newest entries and
\* holds at most `limit` entries.
C30_NewestFirstWindow ==
    [][GetEntries =>
         /\ \A i, j \in DOMAIN listing'.ids :
               i < j => listing'.ids[i] > listing'.ids[j]
         /\ Len(listing'.ids) <= listing'.limit
         /\ listing'.ids =
               Window(IdsDescending(rows), listing'.limit, listing'.offset)]_vars

\* ---------------------------------------------------------------------
\* the pipeline: errors, the callback, the empty buffer
\* ---------------------------------------------------------------------

\* the chunk whose encoding or backend call failed, counted from 1
FailedChunk == Len(texts) + 1

\* C38: when the backend call or the encoding of chunk k fails,
\* transcribe_chunked returns that error at once: no backend call is started
\* for a chunk after k, the callback has been invoked for exactly the chunks
\* before k, and no partial transcript is returned.
C38_FirstErrorEndsPipeline ==
    /\ [](tres.err # "none" =>
            /\ tpc = "returned"
            /\ ~tres.ok
            /\ tres.result = NoReply
            /\ Len(calls) <= FailedChunk
            /\ tres.err = "ApiError" => Len(calls) = FailedChunk
            /\ Len(interim) = (IF on_interim THEN FailedChunk - 1 ELSE 0)
            /\ \A k \in DOMAIN interim : interim[k].text = texts[k])
    /\ [][tres.err # "none" => UNCHANGED pipeVars]_vars

\* the backend failed on the second chunk after the callback saw the first
C38_Witness ==
    /\ tres.err = "ApiError"
    /\ tpc = "returned"
    /\ on_interim
    /\ Len(calls) = 2
    /\ Len(interim) = 1
    /\ Len(Chunks(pcm_f32, chunk_samples)) = 3

\* C39: with a callback supplied, transcribe_chunked invokes it once per
\* chunk, in chunk order, after the backend call of that chunk has returned
\* and before the backend call of the next chunk starts; without a callback
\* nothing is invoked.
C39_CallbackOncePerChunkInOrder ==
    /\ ~on_interim => interim = <<>>
    /\ on_interim =>
          /\ Len(interim) = (IF tpc = "reply" THEN Len(texts) - 1
                             ELSE Len(texts))
          /\ Len(calls) <= Len(interim) + 1
          /\ tres.ok => Len(interim) = Len(Chunks(pcm_f32, chunk_samples))
          /\ \A k \in DOMAIN interim :
                /\ interim[k].text = texts[k]
                /\ calls[k] = pcm_f32_to_wav(ChunkOfBuffer(k),
                                             WHISPER_SAMPLE_RATE,
                                             MONO_CHANNELS).bytes

\* three chunks were transcribed and the callback saw three different texts
\* in the order of the chunks
C39_Witness ==
    /\ tres.ok
    /\ on_interim
    /\ Len(interim) = 3
    /\ interim[1].text = <<97>>
    /\ interim[2].text = <<98>>
    /\ interim[3].text = <<>>

\* C40: transcribe_chunked on an empty sample buffer terminates successfully
\* without a backend call and without a callback, and returns an empty text
\* with is_final = true and timestamp 0.
C40_EmptyBufferSucceeds ==
    (pcm_f32 = <<>> /\ tpc # "call") =>
        /\ tpc \in {"loop", "returned"}
        /\ calls = <<>>
        /\ interim = <<>>
        /\ tpc = "returned" => tres = TOk(TranscriptionResult(<<>>, TRUE, 0))

----------------------------------------------------------------------------
\* the body up to and with its last newline
TerminatedLines == SubSeq(body, 1, Len(body) - Len(Unterminated(body)))

\* what the decoder gives for the terminated lines of the body alone
OfLines == FeedChunk(backend, Decoder(<<>>, <<>>, <<>>, FALSE), TerminatedLines)

\* C37: the decoder handles a line only once its newline has arrived: between
\* two chunks the buffer holds no newline, no event ever comes from the text
\* after the last newline, and a response that ends in an unterminated line
\* (a complete `data: [DONE]` or content frame too) is decoded like the
\* response without that line: the line gives no event and no text, and
\* stays in the buffer when the call returns at the end of the body.
C37_UnterminatedLineIgnored ==
    (backend \in {"openai", "anthropic"}) =>
        /\ spc = "streaming" => FindNewline(sbuf) = 0
        /\ Len(events) <= Len(OfLines.events)
        /\ (Decoded /\ Unterminated(body) # <<>>) =>
              /\ Len(events) = Len(OfLines.events)
              /\ \A i \in 1..Len(events) :
                    events[i].done = OfLines.events[i].done
              /\ IsAscii(TerminatedLines) =>
                    (events = OfLines.events /\ full_text = OfLines.full_text)
              /\ wire = <<>> => sbuf # <<>>
              /\ (wire = <<>> /\ IsAscii(Unterminated(body))) =>
                    sbuf = Unterminated(body)

\* a content frame, then a complete terminator without its newline: the
\* call returned Ok with the one content event and the terminator still in
\* the buffer
C37_Witness ==
    /\ Decoded
    /\ Unterminated(body) \in {DataPrefix \o DoneLiteral, DataPrefix \o <<StopB>>}
    /\ sbuf = Unterminated(body)
    /\ events = <<Chunk(<<97>>, FALSE)>>
    /\ full_text = <<97>>

----------------------------------------------------------------------------
\* a step in which a start_recording call returns
StartReturns ==
    \/ Invoked("start") /\ ctl' = "none"
    \/ ctl = "start" /\ ctl' = "none"

\* C33: a start_recording that returns an error, whatever the cause, leaves
\* the recorder state as it found it: is_recording, the stop sender, the
\* buffer and its contents, sample_rate and channels are unchanged, and
\* unless the error is 'Already recording' the recorder is Idle with no stop
\* sender, the sender of the failed call dropped.
C33_FailedStartChangesNothing ==
    [][ (StartReturns /\ ~ret'.ok) =>
          /\ ret'.op = "start"
          /\ UNCHANGED <<is_recording, buffer, stop_tx, sample_rate, channels>>
          /\ bufs'[buffer] = bufs[buffer]
          /\ ret'.err # "Already recording" =>
                /\ ~is_recording' /\ stop_tx' = 0
                /\ \A w \in Workers :
                      workers'[w].pc # "unspawned" =>
                          workers'[w].stopTx = "dropped"
      ]_vars

\* the first start failed before a stream was built, the next start succeeded
C33_Witness ==
    /\ workers[1].pc = "exited" /\ workers[1].stream = "none"
    /\ workers[1].stopTx = "dropped"
    /\ is_recording
    /\ stop_tx = 2
    /\ ret = OkStart(ret.n)

\* the workers spawned so far
Sessions == {w \in Workers : workers[w].pc # "unspawned"}

\* C35: sessions are isolated: every start gives its worker a buffer no other
\* worker has, a buffer holds only samples of its own worker, the buffer a
\* stop drains is the one of the session it stops, and the drain returns that
\* buffer and leaves the samples of every other worker, late ones of an
\* earlier session among them, where they are.
C35_SessionsIsolated ==
    /\ [](/\ \A v, w \in Sessions : v # w => workers[v].buf # workers[w].buf
          /\ \A w \in Sessions : bufs[workers[w].buf] = pending[w]
          /\ is_recording => buffer = workers[stop_tx].buf
          /\ ctl = "stop" => (call.w \in Sessions /\ buffer = workers[call.w].buf))
    /\ [][ (ctl = "stop" /\ ctl' = "none") =>
             /\ ret'.audio = PcmBytes(pending[call.w])
             /\ \A v \in Sessions \ {call.w} :
                   /\ pending'[v] = pending[v]
                   /\ bufs'[workers[v].buf] = bufs[workers[v].buf]
       ]_vars

\* the second session was stopped and returned its one sample while a sample
\* the first session's worker delivered after its own stop is still in the
\* first buffer
C35_Witness ==
    /\ ret.op = "stop" /\ ret.ok
    /\ Len(ret.audio) = 2
    /\ workers[1].stopTx = "dropped" /\ workers[1].stream = "playing"
    /\ workers[2].stopTx = "dropped" /\ workers[2].stream = "playing"
    /\ Len(pending[1]) = 1
    /\ bufs[workers[1].buf] = pending[1]
    /\ bufs[workers[2].buf] = <<>>

\* C36: the commands are serialized by the state lock, held from entry to
\* return, the readiness wait included: a command is entered only when no
\* command is running; a waiting start has written nothing to the state and
\* writes the whole session in the step in which it returns success; a start
\* succeeds only from Idle, so of two starts from Idle at most one succeeds
\* and the other returns 'Already recording'; a stop finds either Idle or a
\* complete session.
C36_CommandsSerialized ==
    /\ [](ctl = "start" => (~is_recording /\ stop_tx = 0
                             /\ call.op = "start" /\ call.w \in Sessions))
    /\ [][ /\ (Invoked("start") \/ Invoked("stop")) => ctl = "none"
           /\ ctl = "start" =>
                \/ UNCHANGED <<is_recording, buffer, stop_tx, sample_rate,
                               channels, ctl, call>>
                \/ /\ ctl' = "none"
                   /\ UNCHANGED <<is_recording, buffer, stop_tx, sample_rate,
                                  channels>>
                   /\ ~ret'.ok
                \/ /\ ctl' = "none"
                   /\ ret' = OkStart(call.n)
                   /\ is_recording' /\ stop_tx' = call.w
                   /\ buffer' = call.buf
                   /\ sample_rate' = call.rate /\ channels' = call.ch
           /\ (ret' # ret /\ ret'.op = "start" /\ ret'.ok) =>
                (~is_recording /\ is_recording')
           /\ (Invoked("start") /\ is_recording) =>
                ret' = Err(call'.n, "start", "Already recording")
           /\ Invoked("stop") =>
                \/ ~is_recording /\ ret' = Err(call'.n, "stop", "Not recording")
                \/ /\ is_recording
                   /\ stop_tx \in Sessions
                   /\ workers[stop_tx].pc = "wait_stop"
                   /\ buffer = workers[stop_tx].buf
                   /\ sample_rate > 0 /\ channels > 0
       ]_vars

\* of two starts from Idle the first succeeded and the second was rejected,
\* with one worker spawned
C36_Witness ==
    /\ ret = Err(ret.n, "start", "Already recording")
    /\ Spawned = 1
    /\ is_recording
    /\ stop_tx = 1
    /\ ctl = "none"

----------------------------------------------------------------------------
\* the thread of worker w has ended and its stream is gone
Exited(w) ==
    workers[w].pc = "exited" /\ workers[w].stream \in {"none", "dropped"}

\* C32: sending the stop signal never blocks stop_recording: the send is
\* done in the step that enters the call, whatever the worker is doing, and
\* the call goes on to its return; after it the worker of the stopped
\* session receives the signal in the end, drops its stream and terminates.
C32_StopSignalReachesWorker ==
    /\ [][ (Invoked("stop") /\ is_recording) =>
             /\ ctl' = "stop"
             /\ stop_tx' = 0
             /\ workers'[stop_tx].stopTx = "dropped"
             /\ workers[stop_tx].pc # "exited" => workers'[stop_tx].stopMsg
       ]_vars
    /\ [](ctl = "stop" => ENABLED StopDrain)
    /\ (ctl = "stop") ~> (ctl = "none" /\ ret.op = "stop" /\ ret.ok)
    /\ \A w \in Workers : workers[w].stopMsg ~> Exited(w)

\* the stop has returned and the worker it signalled has ended, its stream
\* dropped
C32_Witness ==
    /\ ret.op = "stop" /\ ret.ok
    /\ ~is_recording
    /\ workers[1].pc = "exited"
    /\ workers[1].stream = "dropped"
    /\ workers[1].stopTx = "dropped"
    /\ Spawned = 1

\* the start that spawned worker w returned an error: its stop sender was
\* dropped and never sent on
Abandoned(w) ==
    /\ workers[w].pc # "unspawned"
    /\ workers[w].stopTx = "dropped"
    /\ ~workers[w].stopMsg

\* C34: no worker is leaked by a failed start: the worker of a start that
\* returned an error (a timeout while the worker is still starting too) is
\* never sent a stop signal, always has a step it can take until it has
\* ended (it blocks neither on the readiness send nor on the wait for the
\* stop signal), and terminates in the end.
C34_FailedStartWorkerTerminates ==
    /\ [][ \A w \in Workers :
              (Abandoned(w) /\ workers[w].pc # "exited") => Abandoned(w)'
       ]_vars
    /\ [](\A w \in Workers :
              (Abandoned(w) /\ workers[w].pc # "exited") =>
                  ENABLED WorkerRuns(w))
    /\ \A w \in Workers : Abandoned(w) ~> Exited(w)

\* the start timed out, its worker went on to play the stream and ended by
\* itself; the recorder was never recording
C34_Witness ==
    /\ Spawned = 1
    /\ workers[1].pc = "exited"
    /\ workers[1].stream = "dropped"
    /\ workers[1].stopTx = "dropped"
    /\ ~is_recording
    /\ ret = Err(ret.n, "start", "Recording thread timed out")

----------------------------------------------------------------------------
RECURSIVE Flat(_)
\* the frames of a sequence of frames, one after the other
Flat(fs) == IF fs = <<>> THEN <<>> ELSE Head(fs) \o Flat(Tail(fs))

\* the frames the callback has appended completely, the one it is appending
\* or about to append not counted
Complete ==
    SubSeq(delivered, 1, Len(delivered) - (IF cb.pc = "idle" THEN 0 ELSE 1))

\* C31: appending a frame and draining the buffer exclude one another: the
\* callback appends and the drain takes only while holding the Mutex, never
\* both at once; whenever the callback is not appending, the buffer holds
\* whole frames only, in the order they were delivered; what the drain took
\* is the first j frames delivered, for some j, each of them whole, and what
\* the buffer holds after it are whole frames delivered later: no frame is
\* split between the two and none is lost or doubled.
C31_AppendAndDrainExclusive ==
    /\ cb.pc = "extend" => mutex = "callback"
    /\ dpc = "locked" => mutex = "drain"
    /\ ~(cb.pc = "extend" /\ dpc = "locked")
    /\ \E j \in 0..Len(delivered) :
          /\ taken = Flat(SubSeq(delivered, 1, j))
          /\ dpc # "returned" => j = 0
          /\ j <= Len(Complete)
          /\ vec = Flat(SubSeq(Complete, j + 1, Len(Complete)))
                     \o SubSeq(cb.data, 1, cb.k)

\* the drain came between two callbacks: it took the first frame, of two
\* samples, whole, and the second frame is whole in the buffer
C31_Witness ==
    /\ dpc = "returned"
    /\ Len(delivered) = 2
    /\ Len(delivered[1]) = 2
    /\ taken = delivered[1]
    /\ vec = delivered[2]
    /\ cb.pc = "idle"






====
